---------------------------- MODULE Spec2Model ----------------------------
(***************************************************************************)
(* A model of ash, the interactive shell for an automation-platform REST   *)
(* API (src/ash).  The shell keeps a current context, a command set that   *)
(* follows it, three cached collections with their id and name indices,    *)
(* and an on-disk cache; the REST client pages through collections.        *)
(*                                                                         *)
(* Strings the code inspects character by character (names, identifiers,   *)
(* prompt answers) are sequences of one-character strings, so that         *)
(* str.lower, str.isdigit, int() and the substring test are computed.      *)
(***************************************************************************)
EXTENDS Integers, Sequences, FiniteSets, TLC

(***************************************************************************)
(* Bounds of the model.                                                    *)
(***************************************************************************)
\* Objects of each cacheable type that exist on the server / on disk.
NumObjs == 2
\* Jobs that exist on the server.
NumJobs == 2
\* Lines of stdout a followed job produces at most.
MaxLines == 2
\* Page requests one call of API.retrieves_objects issues at most.
MaxRequests == 3

(***************************************************************************)
(* commands.py                                                             *)
(***************************************************************************)
ROOT_COMMANDS == {"cd", "ls", "cache", "exit"}

CD_COMMANDS == {"job_template", "inventory", "project", "job"}

LS_COMMANDS == {"job_templates", "inventories", "projects", "jobs"}

JT_COMMANDS == {"launch", "refresh", "info", "set", "jobs", "sync"}

JOB_COMMANDS == {"info", "refresh", "retry", "reuse", "template", "cancel", "output"}

INVENTORY_COMMANDS == {"info", "refresh", "hosts", "groups"}

PROJECT_COMMANDS == {"info", "refresh", "sync"}

\* The methods _Ash__cmd_<name> that class Ash defines.
CmdMethods ==
    {"ls", "cd", "cache", "refresh", "open", "info", "jobs", "hosts", "relaunch",
     "cancel", "reuse", "output", "launch", "sync", "template"}

(***************************************************************************)
(* Strings as sequences of characters.                                     *)
(***************************************************************************)
Digits == {"0", "1", "2", "3", "4", "5", "6", "7", "8", "9"}

\* str.lower()
Lower(s) ==
    LET LowerChar(c) ==
            CASE c = "A" -> "a"
              [] c = "B" -> "b"
              [] c = "C" -> "c"
              [] c = "E" -> "e"
              [] c = "N" -> "n"
              [] c = "O" -> "o"
              [] c = "S" -> "s"
              [] c = "Y" -> "y"
              [] OTHER -> c
    IN  [i \in 1..Len(s) |-> LowerChar(s[i])]

\* Python's `sub in s` for strings.
Contains(sub, s) ==
    \E i \in 0..(Len(s) - Len(sub)) : SubSeq(s, i + 1, i + Len(sub)) = sub

\* str.isdigit(): non-empty and every character a digit.
IsDigit(s) == Len(s) > 0 /\ \A i \in 1..Len(s) : s[i] \in Digits

DigitVal(c) ==
    CASE c = "0" -> 0 [] c = "1" -> 1 [] c = "2" -> 2 [] c = "3" -> 3
      [] c = "4" -> 4 [] c = "5" -> 5 [] c = "6" -> 6 [] c = "7" -> 7
      [] c = "8" -> 8 [] c = "9" -> 9

\* int(s) for a string of digits.
RECURSIVE ToInt(_)
ToInt(s) ==
    IF Len(s) = 0 THEN 0
    ELSE 10 * ToInt(SubSeq(s, 1, Len(s) - 1)) + DigitVal(s[Len(s)])

\* str(n) for the ids the model uses (0..99).
Str(n) ==
    LET d(k) == CHOOSE c \in Digits : DigitVal(c) = k
    IN  IF n < 10 THEN <<d(n)>> ELSE <<d(n \div 10), d(n % 10)>>

(***************************************************************************)
(* The resource model (aap.py): an object is its class and the fields of   *)
(* its JSON record that the shell reads.                                   *)
(***************************************************************************)
\* Python's None.
None == [kind |-> "NoneType", id |-> 0, name |-> <<>>, project |-> 0,
         job_template |-> 0, finished |-> FALSE]

\* The names the server gives the objects with ids 1, 2, 3, ... of a type.
NameOf(i) ==
    CASE i = 1 -> <<"a", "b">>
      [] i = 2 -> <<"a", "b", "c">>
      [] i = 3 -> <<"B">>
      [] OTHER -> <<"a", "b">>

JobTemplate(i) ==
    [kind |-> "JobTemplate", id |-> i, name |-> NameOf(i), project |-> i,
     job_template |-> 0, finished |-> FALSE]

Inventory(i) ==
    [kind |-> "Inventory", id |-> i, name |-> NameOf(i), project |-> 0,
     job_template |-> 0, finished |-> FALSE]

Project(i) ==
    [kind |-> "Project", id |-> i, name |-> NameOf(i), project |-> 0,
     job_template |-> 0, finished |-> FALSE]

\* Job ids are 11, 12, ...; job 10+k was launched from job template k + 1.
JobIds == 11..(10 + NumJobs)

Job(i, fin) ==
    [kind |-> "Job", id |-> i, name |-> NameOf(i - 10), project |-> 0,
     job_template |-> i - 9, finished |-> fin]

\* API.instantiate_object: the class that wraps a record of object_type.
instantiate_object(object_type, i) ==
    CASE object_type = "inventories" -> Inventory(i)
      [] object_type = "projects" -> Project(i)
      [] object_type = "job_templates" -> JobTemplate(i)
      [] OTHER -> None

\* The first k objects of a type, as the server lists them.
Listing(object_type, k) == [i \in 1..k |-> instantiate_object(object_type, i)]

\* The methods each class of aap.py defines or inherits; None has none.
BaseObjectMethods == {"init_vars", "refresh", "log_error"}

Methods(cls) ==
    CASE cls = "API" ->
            {"get_request", "post_request", "retrieves_objects", "instantiate_object"}
      [] cls = "AAP" ->
            {"get_inventories", "get_projects", "get_job_templates", "get_jobs", "get_job"}
      [] cls = "JobTemplate" ->
            BaseObjectMethods \cup
            {"jobs", "get_asked_variables", "get_survey_spec", "launch"}
      [] cls = "Inventory" -> BaseObjectMethods \cup {"get_hosts"}
      [] cls = "Project" -> BaseObjectMethods \cup {"sync"}
      [] cls = "Job" ->
            BaseObjectMethods \cup {"print_stdout", "get_stdout", "relaunch", "cancel"}
      [] OTHER -> {}

\* Whether obj.m(...) resolves; when it does not, Python raises AttributeError.
HasMethod(obj, m) == m \in Methods(obj.kind)

\* Cache.insert_cache(self, table_name, data) takes two arguments.
insert_cache_params == 2

\* Ash calls self.cache.insert_cache(object_type, obj.id, obj): three arguments.
insert_cache_args == 3

\* The call of Cache.insert_cache going through.
InsertCacheAccepted == FALSE

\* A call with the wrong number of positional arguments raises TypeError.
InsertCacheRaises == insert_cache_args # insert_cache_params

(***************************************************************************)
(* State.                                                                  *)
(***************************************************************************)
VARIABLES
    commands,               \* Ash.commands: the active command set
    current_context,        \* Ash.current_context: an object or None
    current_context_type,   \* Ash.current_context_type: a type name or "None"
    inventories,            \* Ash.inventories (a list)
    inventories_by_id,      \* dict id -> object
    inventories_by_name,    \* dict name -> object, as <<name, object>> in key order
    projects,
    projects_by_id,
    projects_by_name,
    job_templates,
    job_templates_by_id,
    job_templates_by_name,
    db,                     \* cache.db: the rows of each table
    pc,                     \* where Ash.run is: prompt (waiting for a line), ran (the
                            \* line is done), follow, sleep, terminated, crashed
    start_line,             \* Job.print_stdout's start_line while following
    text,                   \* the line Ash.run has read since the prompt, parsed
    handler,                \* the _Ash__cmd_ method that line was dispatched to
    printed,                \* what was printed since the prompt: <<kind, id>> each
    reqs,                   \* the API requests issued for the line
    jobs,                   \* the jobs a handler of the line fetched (its local `jobs`)
    response,               \* the answer to the POST a handler of the line issued
    fetched,                \* what the collection requests of the line's reload came to
    rpc,                    \* where a call of API.retrieves_objects is: idle, call,
                            \* paging, returned, raised
    limit_arg,              \* the result_limit the call was given
    result_limit,           \* retrieves_objects' result_limit
    page_size,              \* retrieves_objects' page_size
    data,                   \* retrieves_objects' data: the records accumulated
    next_link,              \* whether the last response carries a next link
    requests,               \* the page requests the call has issued
    served,                 \* the records the server has handed out to the call
    objects,                \* the list the call returned
    r_pc,                   \* where an object of aap.py is: idle (none is looked at),
                            \* built, raised (by its constructor), refreshed, kept
    r_kind,                 \* its class
    r_attrs,                \* its attributes, self.api and self.data aside
    r_data,                 \* its self.data
    r_response,             \* the answer to the request of its last refresh()
    call_pc,                \* where a call of a method of aap.py is: idle (none is
                            \* looked at), called, returned
    call_name,              \* the method called
    call_args,              \* the object it is called on and what the server answers
    call_result             \* what it returned

ashVars == <<commands, current_context, current_context_type>>

collVars ==
    <<inventories, inventories_by_id, inventories_by_name,
      projects, projects_by_id, projects_by_name,
      job_templates, job_templates_by_id, job_templates_by_name>>

shellVars ==
    <<ashVars, collVars, db, pc, start_line, text, handler, printed, reqs, jobs,
      response, fetched>>

retrieveVars ==
    <<rpc, limit_arg, result_limit, page_size, data, next_link, requests, served,
      objects>>

resourceVars == <<r_pc, r_kind, r_attrs, r_data, r_response>>

callVars == <<call_pc, call_name, call_args, call_result>>

vars == <<shellVars, retrieveVars, resourceVars, callVars>>

(***************************************************************************)
(* Python dicts built by the comprehensions of Ash._load_all_caches.        *)
(***************************************************************************)
\* {o.id: o for o in list}: the last object of each id.
ById(list) ==
    [i \in {list[k].id : k \in 1..Len(list)} |->
        list[CHOOSE k \in 1..Len(list) :
                /\ list[k].id = i
                /\ \A j \in (k + 1)..Len(list) : list[j].id # i]]

\* {o.name: o for o in list}: keys in order of first insertion, each with the
\* last object of that name.
RECURSIVE ByName(_)
ByName(list) ==
    IF Len(list) = 0 THEN <<>>
    ELSE LET front == ByName(SubSeq(list, 1, Len(list) - 1))
             o == list[Len(list)]
         IN  IF \E k \in 1..Len(front) : front[k][1] = o.name
             THEN [k \in 1..Len(front) |->
                      IF front[k][1] = o.name THEN <<o.name, o>> ELSE front[k]]
             ELSE Append(front, <<o.name, o>>)

\* dict.get(key) with the identifier left a string: no key of an id index is one.
GetUnconverted(by_id, i) == None

\* dict.get(key) on an id index.
Get(by_id, i) == IF i \in DOMAIN by_id THEN by_id[i] ELSE None

\* [o for name, o in by_name.items() if identifier.lower() in name.lower()]
RECURSIVE Matches(_, _)
Matches(by_name, identifier) ==
    IF Len(by_name) = 0 THEN <<>>
    ELSE LET rest == Matches(Tail(by_name), identifier)
             e == Head(by_name)
         IN  IF Contains(Lower(identifier), Lower(e[1]))
             THEN <<e[2]>> \o rest ELSE rest

(***************************************************************************)
(* Requests as the shell sees them.  A collection request either fails (a  *)
(* connection failure or a status other than 200) or returns the objects   *)
(* the server lists.                                                       *)
(***************************************************************************)
Failed == [ok |-> FALSE, objects |-> <<>>]

Listed(objs) == [ok |-> TRUE, objects |-> objs]

\* What GET <object_type>/ can come to, for the cacheable types.
FetchOutcomes(object_type) ==
    {Failed} \cup {Listed(Listing(object_type, k)) : k \in 0..NumObjs}

\* What GET jobs/?order_by=-finished can come to: the first k jobs, finished ones.
JobFetchOutcomes ==
    {Failed} \cup {Listed([i \in 1..k |-> Job(10 + i, TRUE)]) : k \in 0..NumJobs}

\* list(reversed(l))
Reverse(l) == [i \in 1..Len(l) |-> l[Len(l) + 1 - i]]

\* API.retrieves_objects as its callers see it: on a failed request it calls
\* self.log_error, which class API does not define, so AttributeError is raised
\* where the code means to return None.
retrieves_objects(outcome) ==
    IF ~outcome.ok
    THEN IF "log_error" \in Methods("API")
         THEN [raised |-> FALSE, isNone |-> TRUE, objects |-> <<>>]
         ELSE [raised |-> TRUE, isNone |-> FALSE, objects |-> <<>>]
    ELSE [raised |-> FALSE, isNone |-> FALSE, objects |-> outcome.objects]

\* AAP.get_jobs: the jobs in -finished order, reversed by the caller.
get_jobs(outcome) ==
    LET r == retrieves_objects(outcome)
    IN  [r EXCEPT !.objects = Reverse(r.objects)]

\* Ash._load_cache on a table holding `rows`: the rows when there are any,
\* else the fetched objects, each inserted into the table.
load_cache(object_type, rows, outcome) ==
    IF Len(rows) > 0
    THEN [raised |-> FALSE, objects |-> rows, rows |-> rows, reqs |-> <<>>]
    ELSE LET r == retrieves_objects(outcome)
             rq == <<"GET " \o object_type>>
         IN  IF r.raised
             THEN [raised |-> TRUE, objects |-> <<>>, rows |-> rows, reqs |-> rq]
             ELSE IF Len(r.objects) = 0
             THEN [raised |-> FALSE, objects |-> <<>>, rows |-> rows, reqs |-> rq]
             ELSE IF InsertCacheRaises
             THEN [raised |-> TRUE, objects |-> <<>>, rows |-> rows, reqs |-> rq]
             ELSE [raised |-> FALSE, objects |-> r.objects,
                   rows |-> rows \o r.objects, reqs |-> rq]

\* The outcomes of the fetch of object_type on a wiped cache, after the fetch
\* before it came to `prev`: no request is issued once a load has raised.
FetchOutcomesAfter(object_type, prev) ==
    IF load_cache(object_type, <<>>, prev).raised
    THEN {Failed} ELSE FetchOutcomes(object_type)

\* Ash._load_all_caches on the tables d: inventories, then projects, then job
\* templates; an exception leaves the later collections as they were.
load_all_caches(d, fi, fp, fj) ==
    LET li == load_cache("inventories", d.inventories, fi)
        lp == load_cache("projects", d.projects, fp)
        lj == load_cache("job_templates", d.job_templates, fj)
        ni == ~li.raised
        np == ni /\ ~lp.raised
        nj == np /\ ~lj.raised
    IN  [raised |-> ~nj,
         loaded |-> [inventories |-> ni, projects |-> np, job_templates |-> nj],
         inventories |-> IF ni THEN li.objects ELSE inventories,
         projects |-> IF np THEN lp.objects ELSE projects,
         job_templates |-> IF nj THEN lj.objects ELSE job_templates,
         db |-> [inventories |-> li.rows,
                 projects |-> IF ni THEN lp.rows ELSE d.projects,
                 job_templates |-> IF np THEN lj.rows ELSE d.job_templates],
         reqs |-> li.reqs \o (IF ni THEN lp.reqs ELSE <<>>)
                          \o (IF np THEN lj.reqs ELSE <<>>)]

\* The assignments of Ash._load_all_caches, given what it loaded.
AssignCaches(r) ==
    /\ inventories' = r.inventories
    /\ inventories_by_id' =
          IF r.loaded.inventories THEN ById(r.inventories) ELSE inventories_by_id
    /\ inventories_by_name' =
          IF r.loaded.inventories THEN ByName(r.inventories) ELSE inventories_by_name
    /\ projects' = r.projects
    /\ projects_by_id' =
          IF r.loaded.projects THEN ById(r.projects) ELSE projects_by_id
    /\ projects_by_name' =
          IF r.loaded.projects THEN ByName(r.projects) ELSE projects_by_name
    /\ job_templates' = r.job_templates
    /\ job_templates_by_id' =
          IF r.loaded.job_templates THEN ById(r.job_templates) ELSE job_templates_by_id
    /\ job_templates_by_name' =
          IF r.loaded.job_templates THEN ByName(r.job_templates)
          ELSE job_templates_by_name

(***************************************************************************)
(* Ash.__init__.  The tables of cache.db hold what an earlier session left *)
(* on disk: the first k objects of each type, k = 0 for a cold table.  A   *)
(* cold table is fetched, and construction completes only when that fetch *)
(* lists nothing (anything else raises, see load_cache).                   *)
(***************************************************************************)
\* No call of API.retrieves_objects is being followed page by page.
RetrieveIdle ==
    /\ rpc = "idle"
    /\ limit_arg = 0
    /\ result_limit = 0
    /\ page_size = 0
    /\ data = <<>>
    /\ next_link = FALSE
    /\ requests = 0
    /\ served = 0
    /\ objects = <<>>

NoText == [command |-> "", n |-> 0, otype |-> "", ident |-> <<>>]

\* No POST was issued.
NoResponse == [status |-> -1, job |-> None]

\* No collection was listed.
NoFetch == [inventories |-> Failed, projects |-> Failed, job_templates |-> Failed]

ShellInit ==
    \E ki, kp, kj \in 0..NumObjs :
        LET d == [inventories |-> Listing("inventories", ki),
                  projects |-> Listing("projects", kp),
                  job_templates |-> Listing("job_templates", kj)]
            li == load_cache("inventories", d.inventories, Listed(<<>>))
            lp == load_cache("projects", d.projects, Listed(<<>>))
            lj == load_cache("job_templates", d.job_templates, Listed(<<>>))
        IN  /\ db = d
            /\ inventories = li.objects
            /\ inventories_by_id = ById(li.objects)
            /\ inventories_by_name = ByName(li.objects)
            /\ projects = lp.objects
            /\ projects_by_id = ById(lp.objects)
            /\ projects_by_name = ByName(lp.objects)
            /\ job_templates = lj.objects
            /\ job_templates_by_id = ById(lj.objects)
            /\ job_templates_by_name = ByName(lj.objects)
            /\ commands = ROOT_COMMANDS
            /\ current_context = None
            /\ current_context_type = "None"
            /\ pc = "prompt"
            /\ start_line = 0
            /\ text = NoText
            /\ handler = "none"
            /\ printed = <<>>
            /\ reqs = <<>>
            /\ jobs = <<>>
            /\ response = NoResponse
            /\ fetched = NoFetch

\* No refresh() was called.
NoRefresh == [ok |-> FALSE, record |-> <<>>]

\* No object of aap.py is looked at on its own.
ResourceIdle ==
    /\ r_pc = "idle"
    /\ r_kind = "NoneType"
    /\ r_attrs = <<>>
    /\ r_data = <<>>
    /\ r_response = NoRefresh

\* No method of aap.py is looked at on its own.
CallIdle ==
    /\ call_pc = "idle"
    /\ call_name = ""
    /\ call_args = <<>>
    /\ call_result = <<>>

Init == ShellInit /\ RetrieveIdle /\ ResourceIdle /\ CallIdle

(***************************************************************************)
(* Context switching (ash.py, Ash.__switch_context).                       *)
(***************************************************************************)
\* __get_commands_for_context with the jobs branch returning the job-template set.
get_commands_jobs_as_templates(context_type) ==
    CASE context_type = "job_templates" -> JT_COMMANDS \cup ROOT_COMMANDS
      [] context_type = "jobs" -> JT_COMMANDS \cup ROOT_COMMANDS
      [] context_type = "inventories" -> INVENTORY_COMMANDS \cup ROOT_COMMANDS
      [] context_type = "projects" -> PROJECT_COMMANDS \cup ROOT_COMMANDS
      [] OTHER -> ROOT_COMMANDS

get_commands_for_context(context_type) ==
    CASE context_type = "job_templates" -> JT_COMMANDS \cup ROOT_COMMANDS
      [] context_type = "jobs" -> JOB_COMMANDS \cup ROOT_COMMANDS
      [] context_type = "inventories" -> INVENTORY_COMMANDS \cup ROOT_COMMANDS
      [] context_type = "projects" -> PROJECT_COMMANDS \cup ROOT_COMMANDS
      [] OTHER -> ROOT_COMMANDS

switch_context(context, context_type) ==
    /\ current_context' = context
    /\ current_context_type' = context_type
    /\ commands' = get_commands_for_context(context_type)

(***************************************************************************)
(* Ash.run: one iteration reads a line, splits it into the command word    *)
(* and its arguments, and dispatches.  The arguments of cd are the object  *)
(* type and the identifier (the remaining words joined by spaces); n is    *)
(* the number of arguments.                                                *)
(***************************************************************************)
\* `command in` the commands of every context, not those of the current one.
DispatchableAnywhere(command) ==
    command \in ROOT_COMMANDS \cup JT_COMMANDS \cup JOB_COMMANDS
                 \cup INVENTORY_COMMANDS \cup PROJECT_COMMANDS

\* `command in self.commands`
Dispatchable(command) == command \in commands

\* getattr(self, '_Ash__cmd_<command>') finds a method.
HasHandler(command) == command \in CmdMethods

Line(command, n, otype, ident) ==
    [command |-> command, n |-> n, otype |-> otype, ident |-> ident]

\* The line is dispatched to the handler of `command`.
Dispatched(command, n, otype, ident) ==
    /\ pc = "prompt"
    /\ command # "exit"
    /\ Dispatchable(command)
    /\ HasHandler(command)
    /\ text' = Line(command, n, otype, ident)
    /\ handler' = command
    /\ UNCHANGED <<retrieveVars, resourceVars, callVars>>

\* The line is dispatched to a handler that does not reload the collections.
Dispatch(command, n, otype, ident) ==
    /\ Dispatched(command, n, otype, ident)
    /\ fetched' = NoFetch

\* The identifiers typed after cd <type>.
Identifiers ==
    {<<"1">>, <<"0", "2">>, <<"1", "2">>, <<"a">>, <<"A", "B">>, <<"c">>, <<"z">>}

Msg(kind) == <<kind, 0>>

MsgId(kind, obj) == <<kind, obj.id>>

\* The "ID=.., Name=.." lines printed for a list of matches.
RECURSIVE MatchLines(_)
MatchLines(matches) ==
    IF Len(matches) = 0 THEN <<>>
    ELSE <<MsgId("match", Head(matches))>> \o MatchLines(Tail(matches))

\* Ash.__cmd_cd testing len(args) < 2 first: cd alone prints the usage and stays.
CdNoArgsUsage ==
    /\ Dispatch("cd", 0, "", <<>>)
    /\ printed' = <<Msg("usage")>>
    /\ reqs' = <<>>
    /\ pc' = "ran"
    /\ jobs' = <<>>
    /\ response' = NoResponse
    /\ UNCHANGED <<ashVars, collVars, db, start_line>>

\* Ash.__cmd_cd, no arguments.
CdNoArgs ==
    /\ Dispatch("cd", 0, "", <<>>)
    /\ switch_context(None, "None")
    /\ printed' = <<Msg("switched_root")>>
    /\ reqs' = <<>>
    /\ pc' = "ran"
    /\ UNCHANGED <<collVars, db, start_line>>
    /\ jobs' = <<>>
    /\ response' = NoResponse

\* Ash.__cmd_cd, one argument.
CdUsage ==
    \E otype \in {"job_template", "jobs"} :
        /\ Dispatch("cd", 1, otype, <<>>)
        /\ printed' = <<Msg("usage")>>
        /\ reqs' = <<>>
        /\ pc' = "ran"
        /\ UNCHANGED <<ashVars, collVars, db, start_line>>
        /\ jobs' = <<>>
        /\ response' = NoResponse

\* Ash.__cmd_cd, an object type that CD_COMMANDS lacks.
CdUnknownType ==
    \E otype \in {"jobs"}, ident \in {<<"1">>} :
        /\ otype \notin CD_COMMANDS
        /\ Dispatch("cd", 2, otype, ident)
        /\ printed' = <<Msg("unknown_type")>>
        /\ reqs' = <<>>
        /\ pc' = "ran"
        /\ UNCHANGED <<ashVars, collVars, db, start_line>>
        /\ jobs' = <<>>
        /\ response' = NoResponse

\* The lookup taking the first of several matches by name.
lookup_first_match(by_id, by_name, identifier) ==
    IF IsDigit(identifier)
    THEN Get(by_id, ToInt(identifier))
    ELSE LET matches == Matches(by_name, identifier)
         IN  IF Len(matches) >= 1 THEN matches[1] ELSE None

\* The object Ash.__cd_job_template, __cd_inventory select from an id index and
\* a name index, None when there is none.
lookup(by_id, by_name, identifier) ==
    IF IsDigit(identifier)
    THEN Get(by_id, ToInt(identifier))
    ELSE LET matches == Matches(by_name, identifier)
         IN  IF Len(matches) = 1 THEN matches[1] ELSE None

\* The end of each __cd_<type>: not found, or switch.
CdFinish(obj, context_type) ==
    IF obj = None
    THEN /\ printed' = <<Msg("not_found")>>
         /\ UNCHANGED ashVars
    ELSE /\ printed' = <<MsgId("switched", obj)>>
         /\ switch_context(obj, context_type)

\* Ash.__cd_job_template
cd_job_template(identifier) ==
    CdFinish(lookup(job_templates_by_id, job_templates_by_name, identifier),
             "job_templates")

CdJobTemplate ==
    \E ident \in Identifiers :
        /\ Dispatch("cd", 2, "job_template", ident)
        /\ cd_job_template(ident)
        /\ reqs' = <<>>
        /\ pc' = "ran"
        /\ UNCHANGED <<collVars, db, start_line>>
        /\ jobs' = <<>>
        /\ response' = NoResponse

\* Ash.__cd_inventory
CdInventory ==
    \E ident \in Identifiers :
        /\ Dispatch("cd", 2, "inventory", ident)
        /\ CdFinish(lookup(inventories_by_id, inventories_by_name, ident),
                    "inventories")
        /\ reqs' = <<>>
        /\ pc' = "ran"
        /\ UNCHANGED <<collVars, db, start_line>>
        /\ jobs' = <<>>
        /\ response' = NoResponse

\* The first match whose name equals the identifier letter for letter.
FirstExactCaseSensitive(matches, identifier) ==
    LET same == SelectSeq(matches, LAMBDA p : identifier = p.name)
    IN  IF Len(same) = 0 THEN None ELSE same[1]

\* The first match whose name equals the identifier, letter case aside.
RECURSIVE FirstExact(_, _)
FirstExact(matches, identifier) ==
    IF Len(matches) = 0 THEN None
    ELSE IF Lower(identifier) = Lower(Head(matches).name) THEN Head(matches)
    ELSE FirstExact(Tail(matches), identifier)

\* Ash.__cd_project's lookup: the project, and whether it reported several
\* matches and returned.
project_lookup(identifier) ==
    IF IsDigit(identifier)
    THEN [proj |-> Get(projects_by_id, ToInt(identifier)), multiple |-> <<>>]
    ELSE LET matches == Matches(projects_by_name, identifier)
         IN  IF Len(matches) = 1
             THEN [proj |-> matches[1], multiple |-> <<>>]
             ELSE IF Len(matches) > 1
             THEN LET p == FirstExact(matches, identifier)
                  IN  [proj |-> p,
                       multiple |-> IF p = None THEN matches ELSE <<>>]
             ELSE [proj |-> None, multiple |-> <<>>]

\* Ash.__cd_project
CdProject ==
    \E ident \in Identifiers :
        LET r == project_lookup(ident)
        IN  /\ Dispatch("cd", 2, "project", ident)
            /\ IF Len(r.multiple) > 0
               THEN /\ printed' = <<Msg("multiple_found")>> \o MatchLines(r.multiple)
                    /\ UNCHANGED ashVars
               ELSE CdFinish(r.proj, "projects")
            /\ reqs' = <<>>
            /\ pc' = "ran"
            /\ UNCHANGED <<collVars, db, start_line>>
            /\ jobs' = <<>>
            /\ response' = NoResponse

\* AAP.get_job: the Job of a 200 answer; otherwise it calls self.log_error, which
\* class AAP does not define.
get_job(outcome) ==
    IF ~outcome.ok
    THEN IF "log_error" \in Methods("AAP")
         THEN [raised |-> FALSE, job |-> None]
         ELSE [raised |-> TRUE, job |-> None]
    ELSE [raised |-> FALSE, job |-> outcome.objects[1]]

\* What GET jobs/<job_id>/ can come to: a failure or a status other than 200
\* (always so for an id no job has), or the job, finished or not.
JobOutcomes(job_id) ==
    {Failed} \cup
    (IF job_id \in JobIds THEN {Listed(<<Job(job_id, f)>>) : f \in BOOLEAN} ELSE {})

\* Ash.__cd_job's lookup by name among the fetched jobs.
job_by_name(job_list, identifier) ==
    LET matches ==
            SelectSeq(job_list, LAMBDA j : Contains(Lower(identifier), Lower(j.name)))
    IN  IF Len(matches) = 1 THEN matches[1] ELSE None

\* Ash.__cd_job
CdJob ==
    \E ident \in Identifiers :
        /\ Dispatch("cd", 2, "job", ident)
        /\ IF IsDigit(ident)
           THEN \E outcome \in JobOutcomes(ToInt(ident)) :
                   LET r == get_job(outcome)
                   IN  /\ reqs' = <<"GET job">>
                       /\ jobs' = <<>>
                       /\ IF r.raised
                          THEN /\ pc' = "crashed"
                               /\ printed' = <<>>
                               /\ UNCHANGED ashVars
                          ELSE /\ pc' = "ran"
                               /\ CdFinish(r.job, "jobs")
           ELSE \E outcome \in JobFetchOutcomes :
                   LET r == get_jobs(outcome)
                   IN  /\ reqs' = <<"GET jobs">>
                       /\ jobs' = r.objects
                       /\ IF r.raised \/ r.isNone
                          THEN /\ pc' = "crashed"
                               /\ printed' = <<>>
                               /\ UNCHANGED ashVars
                          ELSE /\ pc' = "ran"
                               /\ CdFinish(job_by_name(r.objects, ident), "jobs")
        /\ response' = NoResponse
        /\ UNCHANGED <<collVars, db, start_line>>

(***************************************************************************)
(* ls                                                                      *)
(***************************************************************************)
\* Ash.__cmd_ls without arguments, or with an object type LS_COMMANDS lacks.
LsUsage ==
    \E n \in {0, 1}, otype \in {"job_template"} :
        /\ otype \notin LS_COMMANDS
        /\ Dispatch("ls", n, IF n = 0 THEN "" ELSE otype, <<>>)
        /\ printed' = <<Msg(IF n = 0 THEN "usage" ELSE "unknown_type")>>
        /\ reqs' = <<>>
        /\ pc' = "ran"
        /\ UNCHANGED <<ashVars, collVars, db, start_line>>
        /\ jobs' = <<>>
        /\ response' = NoResponse

\* Ash.__ls_job_templates, __ls_inventories, __ls_projects: from memory.
LsCached ==
    \E otype \in {"job_templates", "inventories", "projects"} :
        LET list == CASE otype = "job_templates" -> job_templates
                      [] otype = "inventories" -> inventories
                      [] OTHER -> projects
        IN  /\ Dispatch("ls", 1, otype, <<>>)
            /\ printed' = IF Len(list) = 0 THEN <<Msg("nothing_in_cache")>>
                          ELSE <<Msg("headers")>> \o MatchLines(list)
            /\ reqs' = <<>>
            /\ pc' = "ran"
            /\ UNCHANGED <<ashVars, collVars, db, start_line>>
            /\ jobs' = <<>>
            /\ response' = NoResponse

\* int(filter_value) taking any text for a number.
parses_any_text(limit) == TRUE

\* `int(filter_value)` does not raise ValueError.
parses_as_int(limit) == IsDigit(limit)

\* Ash.__ls_jobs; `limit` is the text after result_limit:, <<>> when the filter
\* is not given.  int() raises ValueError on text that is not a number.
LsJobs ==
    \E limit \in {<<>>, <<"3">>, <<"a">>} :
        /\ Dispatch("ls", IF limit = <<>> THEN 1 ELSE 2, "jobs", limit)
        /\ IF limit # <<>> /\ ~parses_as_int(limit)
           THEN /\ printed' = <<Msg("invalid_result_limit")>>
                /\ reqs' = <<>>
                /\ jobs' = <<>>
                /\ pc' = "ran"
           ELSE \E outcome \in JobFetchOutcomes :
                   LET r == get_jobs(outcome)
                   IN  /\ reqs' = <<"GET jobs">>
                       /\ jobs' = r.objects
                       /\ pc' = IF r.raised THEN "crashed" ELSE "ran"
                       /\ printed' =
                             IF r.raised THEN <<>>
                             ELSE IF Len(r.objects) = 0 THEN <<Msg("no_jobs")>>
                             ELSE <<Msg("headers")>> \o MatchLines(r.objects)
        /\ response' = NoResponse
        /\ UNCHANGED <<ashVars, collVars, db, start_line>>

(***************************************************************************)
(* cache and refresh                                                       *)
(***************************************************************************)
\* Cache.clean_cache
clean_cache == [inventories |-> <<>>, projects |-> <<>>, job_templates |-> <<>>]

\* Ash.__cmd_cache
CmdCache ==
    \E fi \in FetchOutcomes("inventories") :
    \E fp \in FetchOutcomesAfter("projects", fi) :
    \E fj \in FetchOutcomesAfter("job_templates", fp) :
        LET r == load_all_caches(clean_cache, fi, fp, fj)
        IN  /\ Dispatched("cache", 0, "", <<>>)
            /\ fetched' = [inventories |-> fi, projects |-> fp, job_templates |-> fj]
            /\ AssignCaches(r)
            /\ db' = r.db
            /\ reqs' = r.reqs
            /\ pc' = IF r.raised THEN "crashed" ELSE "ran"
            /\ printed' = IF r.raised THEN <<>> ELSE <<Msg("cache_refreshed")>>
            /\ UNCHANGED <<ashVars, start_line>>
            /\ jobs' = <<>>
            /\ response' = NoResponse

\* What GET <uri> of the current context can come to: a failure or a status other
\* than 200, or the record as the server has it now (a job may have finished
\* since; a finished job stays finished).
RefreshOutcomes(obj) ==
    {Failed} \cup
    {Listed(<<[obj EXCEPT !.finished = f]>>) :
        f \in IF obj.kind = "Job" /\ ~obj.finished THEN BOOLEAN ELSE {obj.finished}}

\* BaseObject.refresh: the object after it.
refresh(obj, outcome) == IF outcome.ok THEN outcome.objects[1] ELSE obj

\* Cache.insert_cache as Ash calls it: the table with the row appended, when the
\* call does not raise.
insert_cache(d, table_name, row) ==
    [d EXCEPT ![table_name] = Append(d[table_name], row)]

\* The refreshed context inserted into the cache whatever its type.
caches_any_context(context_type) == TRUE

\* `if self.current_context_type != 'jobs'`: the refreshed context is inserted
\* into the cache unless it is a job.
caches_context(context_type) == context_type # "jobs"

\* Ash.__cmd_refresh
CmdRefresh ==
    \E outcome \in RefreshOutcomes(current_context) :
        /\ Dispatch("refresh", 0, "", <<>>)
        /\ reqs' = IF HasMethod(current_context, "refresh") THEN <<"GET context">>
                   ELSE <<>>
        /\ current_context' =
              IF HasMethod(current_context, "refresh")
              THEN refresh(current_context, outcome) ELSE current_context
        /\ IF ~HasMethod(current_context, "refresh")
           THEN pc' = "crashed" /\ printed' = <<>> /\ db' = db
           ELSE IF caches_context(current_context_type)
           THEN IF InsertCacheRaises
                THEN pc' = "crashed" /\ printed' = <<>> /\ db' = db
                ELSE /\ pc' = "ran"
                     /\ printed' = <<Msg("context_refreshed")>>
                     /\ db' = insert_cache(db, current_context_type, current_context')
           ELSE pc' = "ran" /\ printed' = <<Msg("context_refreshed")>> /\ db' = db
        /\ UNCHANGED <<commands, current_context_type, collVars, start_line>>
        /\ jobs' = <<>>
        /\ response' = NoResponse

(***************************************************************************)
(* Commands that read the current context.                                 *)
(***************************************************************************)
\* Ash.__cmd_info, Ash.__cmd_reuse: they print.
CmdPrint ==
    \E command \in {"info", "reuse"} :
        /\ Dispatch(command, 0, "", <<>>)
        /\ reqs' = <<>>
        /\ IF command = "info" /\ current_context = None
           THEN pc' = "crashed" /\ printed' = <<>>
           ELSE pc' = "ran" /\ printed' = <<Msg(command)>>
        /\ UNCHANGED <<ashVars, collVars, db, start_line>>
        /\ jobs' = <<>>
        /\ response' = NoResponse

\* Ash.__cmd_jobs: JobTemplate.jobs through API.retrieves_objects.
CmdJobs ==
    \E outcome \in JobFetchOutcomes :
        LET r == retrieves_objects(outcome)
        IN  /\ Dispatch("jobs", 0, "", <<>>)
            /\ IF ~HasMethod(current_context, "jobs")
               THEN pc' = "crashed" /\ printed' = <<>> /\ reqs' = <<>> /\ jobs' = <<>>
               ELSE /\ reqs' = <<"GET jobs">>
                    /\ jobs' = r.objects
                    /\ pc' = IF r.raised THEN "crashed" ELSE "ran"
                    /\ printed' =
                          IF r.raised THEN <<>>
                          ELSE IF Len(r.objects) = 0 THEN <<Msg("no_jobs")>>
                          ELSE <<Msg("headers")>> \o MatchLines(r.objects)
            /\ response' = NoResponse
            /\ UNCHANGED <<ashVars, collVars, db, start_line>>

\* Ash.__cmd_hosts: Inventory.get_hosts logs a failed request and returns [].
CmdHosts ==
    \E ok \in BOOLEAN, nhosts \in 0..1 :
        /\ Dispatch("hosts", 0, "", <<>>)
        /\ IF ~HasMethod(current_context, "get_hosts")
           THEN pc' = "crashed" /\ printed' = <<>> /\ reqs' = <<>>
           ELSE /\ reqs' = <<"GET hosts">>
                /\ pc' = "ran"
                /\ printed' = IF ok /\ nhosts > 0 THEN <<Msg("hosts")>>
                              ELSE IF ok THEN <<Msg("no_hosts")>>
                              ELSE <<Msg("log_error"), Msg("no_hosts")>>
        /\ UNCHANGED <<ashVars, collVars, db, start_line>>
        /\ jobs' = <<>>
        /\ response' = NoResponse

\* Job.cancel returning true on any answer of the server.
cancel_on_any_answer(status) == status # 0

\* Job.cancel: true exactly on status 202.
cancel(status) == status = 202

\* The statuses a POST is answered with; 0 stands for a connection failure.
Statuses == {0, 200, 201, 202, 400}

\* Ash.__cmd_cancel
CmdCancel ==
    \E status \in Statuses :
        /\ Dispatch("cancel", 0, "", <<>>)
        /\ IF ~HasMethod(current_context, "cancel")
           THEN pc' = "crashed" /\ printed' = <<>> /\ reqs' = <<>>
                /\ response' = NoResponse
           ELSE /\ reqs' = <<"POST cancel">>
                /\ response' = [status |-> status, job |-> None]
                /\ pc' = "ran"
                /\ printed' = IF cancel(status) THEN <<Msg("cancelled")>>
                              ELSE <<Msg("log_error"), Msg("cancel_failed")>>
        /\ jobs' = <<>>
        /\ UNCHANGED <<ashVars, collVars, db, start_line>>

\* Ash.__cmd_template: cd to the job template the job names.
CmdTemplate ==
    /\ Dispatch("template", 0, "", <<>>)
    /\ reqs' = <<>>
    /\ IF current_context = None
       THEN pc' = "crashed" /\ printed' = <<>> /\ UNCHANGED ashVars
       ELSE pc' = "ran" /\ cd_job_template(Str(current_context.job_template))
    /\ UNCHANGED <<collVars, db, start_line>>
    /\ jobs' = <<>>
    /\ response' = NoResponse

\* Project.sync: true exactly on status 202.
sync(status) == status = 202

\* Ash.__cmd_sync: the project of a job template comes from the id index and may
\* be missing there; None has no sync.
CmdSync ==
    \E status \in Statuses :
        LET project == IF current_context_type = "job_templates"
                       THEN Get(projects_by_id, current_context.project)
                       ELSE current_context
        IN  /\ Dispatch("sync", 0, "", <<>>)
            /\ IF ~HasMethod(project, "sync")
               THEN pc' = "crashed" /\ printed' = <<>> /\ reqs' = <<>>
                    /\ response' = NoResponse
               ELSE /\ reqs' = <<"POST update">>
                    /\ response' = [status |-> status, job |-> None]
                    /\ pc' = "ran"
                    /\ printed' = (IF sync(status) THEN <<>> ELSE <<Msg("log_error")>>)
                                  \o <<MsgId("sync_initiated", project)>>
            /\ jobs' = <<>>
            /\ UNCHANGED <<ashVars, collVars, db, start_line>>

(***************************************************************************)
(* launch, output and the follow loop of Job.print_stdout.                 *)
(***************************************************************************)
\* The confirmation with "yes" as the answer to an empty input.
confirmed_by_default(answer) ==
    Lower(IF answer = <<>> THEN <<"y", "e", "s">> ELSE answer)
        \in {<<"y", "e", "s">>, <<"y">>}

\* `prompt(...) or "no"`, then `user_input.lower() in ['yes', 'y']`.
confirmed(answer) ==
    Lower(IF answer = <<>> THEN <<"n", "o">> ELSE answer)
        \in {<<"y", "e", "s">>, <<"y">>}

\* JobTemplate.launch taking 200 for the status of success.
launch_expecting_200(status, job) == IF status = 200 THEN job ELSE None

\* JobTemplate.launch: the Job of a 201 answer, else None.
launch(status, job) == IF status = 201 THEN job ELSE None

\* Ash.__cmd_launch, the prompts answered.  A launched job becomes the context
\* and Ash.__cmd_output follows its output from line 0.
CmdLaunch ==
    \E answer \in {<<>>, <<"y">>, <<"Y">>, <<"Y", "e", "S">>, <<"n", "o">>, <<"y", "e">>} :
        /\ Dispatch("launch", 0, "", answer)
        /\ IF ~HasMethod(current_context, "get_asked_variables")
           THEN /\ pc' = "crashed"
                /\ printed' = <<>>
                /\ reqs' = <<>>
                /\ response' = NoResponse
                /\ UNCHANGED <<ashVars, start_line>>
           ELSE IF ~confirmed(answer)
           THEN /\ pc' = "ran"
                /\ printed' = <<Msg("launch_cancelled")>>
                /\ reqs' = <<>>
                /\ response' = NoResponse
                /\ UNCHANGED <<ashVars, start_line>>
           ELSE \E status \in Statuses :
                \E i \in IF status = 201 THEN JobIds ELSE {11} :
                   LET created == IF status = 201 THEN Job(i, FALSE) ELSE None
                       job == launch(status, created)
                   IN  /\ reqs' = <<"POST launch">>
                       /\ response' = [status |-> status, job |-> created]
                       /\ IF job # None
                          THEN /\ printed' = <<MsgId("launched", job)>>
                               /\ switch_context(job, "jobs")
                               /\ pc' = "follow"
                               /\ start_line' = 0
                          ELSE /\ printed' = <<>>
                               /\ pc' = "ran"
                               /\ UNCHANGED <<ashVars, start_line>>
        /\ jobs' = <<>>
        /\ UNCHANGED <<collVars, db>>

\* Ash.__cmd_launch interrupted at one of its prompts: Ash.run catches the
\* KeyboardInterrupt.
CmdLaunchInterrupted ==
    /\ Dispatch("launch", 0, "", <<>>)
    /\ HasMethod(current_context, "get_asked_variables")
    /\ printed' = <<Msg("interrupted")>>
    /\ reqs' = <<>>
    /\ pc' = "ran"
    /\ UNCHANGED <<ashVars, collVars, db, start_line>>
    /\ jobs' = <<>>
    /\ response' = NoResponse

\* Ash.__cmd_output: Job.print_stdout() with follow=True.
CmdOutput ==
    /\ Dispatch("output", 0, "", <<>>)
    /\ printed' = <<>>
    /\ reqs' = <<>>
    /\ IF ~HasMethod(current_context, "print_stdout")
       THEN pc' = "crashed" /\ start_line' = start_line
       ELSE pc' = "follow" /\ start_line' = 0
    /\ UNCHANGED <<ashVars, collVars, db>>
    /\ jobs' = <<>>
    /\ response' = NoResponse

\* The lines after the first `from` up to line `to`, one after the other, each
\* as the server holds it: the line's number and the line break.
RECURSIVE StdoutLines(_, _)
StdoutLines(from, to) ==
    IF to <= from THEN <<>> ELSE StdoutLines(from, to - 1) \o Str(to) \o <<"\n">>

\* What Job.get_stdout(start_line) can come to: None (a failed request), or the
\* content from that line on, as far as the job has written (whole lines,
\* possibly none).
Chunks(from) ==
    {[ok |-> FALSE, content |-> <<>>]} \cup
    {[ok |-> TRUE, content |-> StdoutLines(from, to)] : to \in from..MaxLines}

\* str.splitlines() for text whose line break is "\n".
RECURSIVE splitlines(_)
splitlines(s) ==
    IF s = <<>> THEN <<>>
    ELSE LET breaks == {i \in 1..Len(s) : s[i] = "\n"}
         IN  IF breaks = {} THEN <<s>>
             ELSE LET b == CHOOSE i \in breaks : \A j \in breaks : i <= j
                  IN  <<SubSeq(s, 1, b - 1)>> \o splitlines(SubSeq(s, b + 1, Len(s)))

\* The offset set to the number of lines of the chunk instead of advanced by it.
start_line_of_chunk(from, stdout) == Len(splitlines(stdout))

\* `start_line += len(stdout.splitlines())`
next_start_line(from, stdout) == from + Len(splitlines(stdout))

\* `if stdout is not None`: the chunk of any request that succeeded.
stdout_not_none(chunk) == chunk.ok

\* `if stdout:` - the request succeeded and its content is not empty.
stdout_truthy(chunk) == chunk.ok /\ chunk.content # <<>>

\* One iteration of the follow loop up to the sleep: refresh, fetch from
\* start_line, and, for a non-empty chunk, advance, print and leave the loop when
\* the job has finished.
Poll ==
    /\ pc = "follow"
    /\ \E outcome \in RefreshOutcomes(current_context), chunk \in Chunks(start_line) :
          LET job == refresh(current_context, outcome)
              stdout == chunk.content
          IN  /\ current_context' = job
              /\ IF stdout_truthy(chunk)
                 THEN /\ start_line' = next_start_line(start_line, stdout)
                      /\ printed' = Append(printed, <<"stdout", stdout>>)
                      /\ pc' = IF job.finished THEN "ran" ELSE "sleep"
                 ELSE /\ pc' = "sleep"
                      /\ UNCHANGED <<start_line, printed>>
    /\ UNCHANGED <<commands, current_context_type, collVars, db, text, handler, reqs>>
    /\ UNCHANGED <<retrieveVars, resourceVars, callVars>>
    /\ UNCHANGED <<jobs, response, fetched>>

\* time.sleep(5) at the end of an iteration, then the next one.
Sleep ==
    /\ pc = "sleep"
    /\ pc' = "follow"
    /\ UNCHANGED <<ashVars, collVars, db, start_line, text, handler, printed, reqs>>
    /\ UNCHANGED <<retrieveVars, resourceVars, callVars>>
    /\ UNCHANGED <<jobs, response, fetched>>

\* KeyboardInterrupt in the follow loop propagating out of Ash.run.
FollowInterruptedUncaught ==
    /\ pc \in {"follow", "sleep"}
    /\ pc' = "crashed"
    /\ UNCHANGED <<ashVars, collVars, db, start_line, text, handler, printed, reqs>>
    /\ UNCHANGED <<retrieveVars, resourceVars, callVars>>
    /\ UNCHANGED <<jobs, response, fetched>>

\* KeyboardInterrupt in the follow loop, caught by Ash.run.
FollowInterrupted ==
    /\ pc \in {"follow", "sleep"}
    /\ pc' = "ran"
    /\ printed' = Append(printed, Msg("interrupted"))
    /\ UNCHANGED <<ashVars, collVars, db, start_line, text, handler, reqs>>
    /\ UNCHANGED <<retrieveVars, resourceVars, callVars>>
    /\ UNCHANGED <<jobs, response, fetched>>

(***************************************************************************)
(* The other branches of Ash.run.                                          *)
(***************************************************************************)
\* Command words typed besides the ones the actions above dispatch.
Words ==
    {"set", "retry", "groups", "launch", "refresh", "template", "hosts", "sync",
     "open", "relaunch", "foo"}

\* A word of the command set without a method: getattr raises AttributeError,
\* which nothing catches.
NoHandler ==
    \E command \in Words :
        /\ pc = "prompt"
        /\ command # "exit"
        /\ Dispatchable(command)
        /\ ~HasHandler(command)
        /\ text' = Line(command, 0, "", <<>>)
        /\ handler' = "none"
        /\ pc' = "crashed"
        /\ printed' = <<>>
        /\ reqs' = <<>>
        /\ UNCHANGED <<ashVars, collVars, db, start_line>>
        /\ UNCHANGED <<retrieveVars, resourceVars, callVars>>
        /\ jobs' = <<>>
        /\ response' = NoResponse
        /\ fetched' = NoFetch

\* A word outside the command set, or a blank line.
Unknown ==
    \E command \in Words \cup {""} :
        /\ pc = "prompt"
        /\ command # "exit"
        /\ ~Dispatchable(command)
        /\ text' = Line(command, 0, "", <<>>)
        /\ handler' = "none"
        /\ printed' = IF command = "" THEN <<>> ELSE <<Msg("unknown_command")>>
        /\ reqs' = <<>>
        /\ pc' = "ran"
        /\ UNCHANGED <<ashVars, collVars, db, start_line>>
        /\ UNCHANGED <<retrieveVars, resourceVars, callVars>>
        /\ jobs' = <<>>
        /\ response' = NoResponse
        /\ fetched' = NoFetch

\* exit, or end of input at the prompt.
Exit ==
    \E command \in {"exit", "^D"} :
        /\ pc = "prompt"
        /\ text' = Line(command, 0, "", <<>>)
        /\ handler' = "none"
        /\ pc' = "terminated"
        /\ printed' = <<Msg("terminating")>>
        /\ reqs' = <<>>
        /\ UNCHANGED <<ashVars, collVars, db, start_line>>
        /\ UNCHANGED <<retrieveVars, resourceVars, callVars>>
        /\ jobs' = <<>>
        /\ response' = NoResponse
        /\ fetched' = NoFetch

\* KeyboardInterrupt at the prompt: the loop prompts again.
PromptInterrupted ==
    /\ pc = "prompt"
    /\ text' = Line("^C", 0, "", <<>>)
    /\ handler' = "none"
    /\ printed' = <<>>
    /\ reqs' = <<>>
    /\ pc' = "ran"
    /\ UNCHANGED <<ashVars, collVars, db, start_line>>
    /\ UNCHANGED <<retrieveVars, resourceVars, callVars>>
    /\ jobs' = <<>>
    /\ response' = NoResponse
    /\ fetched' = NoFetch

\* The top of the loop of Ash.run: the prompt is shown for the next line.
Prompt ==
    /\ pc = "ran"
    /\ pc' = "prompt"
    /\ text' = NoText
    /\ handler' = "none"
    /\ printed' = <<>>
    /\ reqs' = <<>>
    /\ UNCHANGED <<ashVars, collVars, db, start_line>>
    /\ UNCHANGED <<retrieveVars, resourceVars, callVars>>
    /\ jobs' = <<>>
    /\ response' = NoResponse
    /\ fetched' = NoFetch

Next ==
    \/ Prompt
    \/ CdNoArgs
    \/ CdUsage
    \/ CdUnknownType
    \/ CdJobTemplate
    \/ CdInventory
    \/ CdProject
    \/ CdJob
    \/ LsUsage
    \/ LsCached
    \/ LsJobs
    \/ CmdCache
    \/ CmdRefresh
    \/ CmdPrint
    \/ CmdJobs
    \/ CmdHosts
    \/ CmdCancel
    \/ CmdTemplate
    \/ CmdSync
    \/ CmdLaunch
    \/ CmdLaunchInterrupted
    \/ CmdOutput
    \/ Poll
    \/ Sleep
    \/ FollowInterrupted
    \/ NoHandler
    \/ Unknown
    \/ Exit
    \/ PromptInterrupted

Spec == Init /\ [][Next]_vars

(***************************************************************************)
(* API.retrieves_objects, page by page.  A record is its position in the   *)
(* server's collection.  The server answers each page request with at most *)
(* page_size records and with or without a next link.                      *)
(***************************************************************************)
\* The page size the code never exceeds.
MaxPageSize == 100

\* `if not result_limit or result_limit > 100: page_size = 100`
PageSize(limit) == IF limit = 0 \/ limit > MaxPageSize THEN MaxPageSize ELSE limit

\* The numbers of records a page of at most ps records is tried with.
PageCounts(ps) == {0, 1, ps - 1, ps} \cap 0..ps

\* The records served + 1 .. served + k.
Page(from, k) == [i \in 1..k |-> from + i]

\* The append testing len(data) + 1 < result_limit: it stops one record short.
AppendUpToOneShort(d, results, limit) ==
    LET room == IF Len(d) + 1 < limit THEN limit - 1 - Len(d) ELSE 0
        take == IF Len(results) < room THEN Len(results) ELSE room
    IN  d \o SubSeq(results, 1, take)

\* `for item in results: if len(data) < result_limit: data.append(item)`:
\* the items are appended in order for as long as there is room below the limit.
AppendUpTo(d, results, limit) ==
    LET room == IF Len(d) < limit THEN limit - Len(d) ELSE 0
        take == IF Len(results) < room THEN Len(results) ELSE room
    IN  d \o SubSeq(results, 1, take)

\* The loop condition without its test of the count.
MorePagesWhileNext == next_link

\* The loop condition: `response.json().get('next') and len(data) < result_limit`
MorePages == next_link /\ Len(data) < result_limit

\* A failed page request: self.log_error(response), then return None.
RetrieveFailed ==
    /\ rpc' = IF "log_error" \in Methods("API") THEN "returned_none" ELSE "raised"
    /\ requests' = requests + 1
    /\ UNCHANGED <<limit_arg, result_limit, page_size, data, next_link, served, objects>>

\* The call, up to the answer to its first request.
FirstPage ==
    /\ rpc = "call"
    /\ \/ RetrieveFailed
       \/ \E k \in PageCounts(page_size), nxt \in BOOLEAN,
             count \in IF result_limit = 0 THEN {0, 1, 2, MaxPageSize + 1} ELSE {0} :
             /\ data' = Page(served, k)
             /\ served' = served + k
             /\ next_link' = nxt
             /\ result_limit' = IF result_limit = 0 THEN count ELSE result_limit
             /\ requests' = requests + 1
             /\ rpc' = "paging"
             /\ UNCHANGED <<limit_arg, page_size, objects>>
    /\ UNCHANGED <<shellVars, resourceVars, callVars>>

\* One iteration of the while loop: the next page is requested.
NextPage ==
    /\ rpc = "paging"
    /\ MorePages
    /\ requests < MaxRequests
    /\ \/ RetrieveFailed
       \/ \E k \in PageCounts(page_size), nxt \in BOOLEAN :
             /\ data' = AppendUpTo(data, Page(served, k), result_limit)
             /\ served' = served + k
             /\ next_link' = nxt
             /\ requests' = requests + 1
             /\ UNCHANGED <<rpc, limit_arg, result_limit, page_size, objects>>
    /\ UNCHANGED <<shellVars, resourceVars, callVars>>

\* The loop is left and the wrapped records are returned.
ReturnObjects ==
    /\ rpc = "paging"
    /\ ~MorePages
    /\ objects' = data
    /\ rpc' = "returned"
    /\ UNCHANGED <<limit_arg, result_limit, page_size, data, next_link, requests, served>>
    /\ UNCHANGED <<shellVars, resourceVars, callVars>>

\* A call of retrieves_objects with a result_limit of Limits, in a shell whose
\* cache is cold.
InitRetrieve ==
    /\ ShellInit
    /\ ResourceIdle
    /\ CallIdle
    /\ db = clean_cache
    /\ rpc = "call"
    /\ limit_arg \in {0, 1, 2, 3, MaxPageSize, MaxPageSize + 1}
    /\ result_limit = limit_arg
    /\ page_size = PageSize(limit_arg)
    /\ data = <<>>
    /\ next_link = FALSE
    /\ requests = 0
    /\ served = 0
    /\ objects = <<>>

NextRetrieve ==
    \/ FirstPage
    \/ NextPage
    \/ ReturnObjects

SpecRetrieve == InitRetrieve /\ [][NextRetrieve]_vars

(***************************************************************************)
(* The objects of aap.py on their own: an object is built from a record   *)
(* (the JSON object of a response) and refreshed any number of times.  A   *)
(* record is a function from the names of its fields to their values.      *)
(***************************************************************************)
\* JSON null, Python's None as the value of a field.
Null == "null"

ResourceIds == {"1", "2"}

\* The values the server gives a field.
FieldValues(k) ==
    CASE k = "id" -> ResourceIds
      [] k = "name" -> {"a", "b"}
      [] k = "scm_branch" -> {Null, "", "dev"}
      [] k = "inventory" -> {"7"}

\* The fields every record of a class carries, and the ones it may carry.
RequiredFields(kind) == IF kind = "Host" THEN {"id", "inventory"} ELSE {"id"}

\* The records the server can hold for the object `id` of a class: the name and
\* the scm_branch are there or not.
Records(kind, id) ==
    UNION {{rec \in [RequiredFields(kind) \cup S ->
                        UNION {FieldValues(k) : k \in RequiredFields(kind) \cup S}] :
               /\ rec["id"] = id
               /\ \A k \in DOMAIN rec : rec[k] \in FieldValues(k)} :
           S \in SUBSET {"name", "scm_branch"}}

\* bool(v) for the value of a field.
Truthy(v) == v \notin {Null, ""}

\* BaseObject.init_vars: setattr for each field of the record; the attributes of
\* other names stay.
init_vars(attrs, rec) ==
    [k \in DOMAIN attrs \cup DOMAIN rec |->
        IF k \in DOMAIN rec THEN rec[k] ELSE attrs[k]]

\* self.uri of each class
uri(kind, a) ==
    CASE kind = "JobTemplate" -> <<"job_templates/", a["id"]>>
      [] kind = "Inventory" -> <<"inventories/", a["id"]>>
      [] kind = "Host" -> <<"inventory/", a["inventory"], "/hosts/", a["id"]>>
      [] kind = "Project" -> <<"projects/", a["id"]>>
      [] kind = "Job" -> <<"jobs/", a["id"]>>

\* self.absolute_url of each class
absolute_url(kind, a) ==
    CASE kind = "JobTemplate" ->
            <<"base_url", "execution/templates/job-template/", a["id"]>>
      [] kind = "Inventory" ->
            <<"base_url", "execution/infrastructure/inventories/inventory/",
              a["id"], "/details">>
      [] kind = "Host" ->
            <<"base_url", "execution/infrastructure/inventories/inventory/",
              a["inventory"], "/hosts/", a["id"], "/details">>
      [] kind = "Project" -> <<"base_url", "execution/projects/", a["id"], "/details">>
      [] kind = "Job" -> <<"base_url", "execution/jobs/playbook/", a["id"], "/output">>

\* <class>.__init__(api, data): BaseObject.__init__, then for a Job the default
\* of scm_branch (`not self.scm_branch` raises AttributeError when no attribute
\* of that name was set), then uri and absolute_url.
construct(kind, rec) ==
    LET a == init_vars(<<>>, rec)
    IN  IF kind = "Job" /\ "scm_branch" \notin DOMAIN a
        THEN [raised |-> TRUE, attrs |-> a]
        ELSE LET b == IF kind = "Job" /\ ~Truthy(a["scm_branch"])
                      THEN [a EXCEPT !["scm_branch"] = "main"] ELSE a
             IN  [raised |-> FALSE,
                  attrs |-> [k \in DOMAIN b \cup {"uri", "absolute_url"} |->
                                IF k = "uri" THEN uri(kind, b)
                                ELSE IF k = "absolute_url" THEN absolute_url(kind, b)
                                ELSE b[k]]]

\* An object of any class built from any record.
InitResource ==
    /\ ShellInit
    /\ db = clean_cache
    /\ RetrieveIdle
    /\ CallIdle
    /\ r_kind \in {"JobTemplate", "Inventory", "Project", "Job", "Host"}
    /\ \E id \in ResourceIds : \E rec \in Records(r_kind, id) :
          LET c == construct(r_kind, rec)
          IN  /\ r_pc = IF c.raised THEN "raised" ELSE "built"
              /\ r_attrs = c.attrs
              /\ r_data = rec
    /\ r_response = NoRefresh

\* refresh() taking every answer that has a body, whatever its status.
refresh_takes_any_body(outcome) == DOMAIN outcome.record # {}

\* `if response is None or response.status_code != 200: return`
refresh_takes(outcome) == outcome.ok

\* BaseObject.refresh: GET self.uri; the record of the answer replaces self.data
\* and sets the attributes of its fields; a failure or a status other than 200
\* changes nothing.  The request fails to connect (API.get_request returns
\* None), or is answered with a record and the status 200 (ok) or another one.
Refresh ==
    /\ r_pc \in {"built", "refreshed", "kept"}
    /\ \E outcome \in {NoRefresh} \cup
                       {[ok |-> ok, record |-> rec] :
                           ok \in BOOLEAN, rec \in Records(r_kind, r_attrs["id"])} :
          /\ r_response' = outcome
          /\ IF refresh_takes(outcome)
             THEN /\ r_pc' = "refreshed"
                  /\ r_attrs' = init_vars(r_attrs, outcome.record)
                  /\ r_data' = outcome.record
             ELSE /\ r_pc' = "kept"
                  /\ UNCHANGED <<r_attrs, r_data>>
    /\ UNCHANGED r_kind
    /\ UNCHANGED <<shellVars, retrieveVars, callVars>>

NextResource == Refresh

SpecResource == InitResource /\ [][NextResource]_vars

(***************************************************************************)
(* The methods of the classes of aap.py that compute a result from the     *)
(* object and from what the server answers, each on its own: a call and    *)
(* its return.                                                             *)
(***************************************************************************)
\* The names of the attributes of a job template, cut where the code cuts them:
\* the four characters "ask_", the name of the variable, "_on_launch".
AskFlag(name) == <<"ask_", name, "_on_launch">>

\* dir(self) of a job template: the names in alphabetical order (the methods,
\* of which none starts with "ask_", are left out but for one).
DirOrder ==
    <<AskFlag("credential"), AskFlag("limit"), AskFlag("tags"),
      <<"get_asked_variables">>, <<"id">>, <<"limit">>, <<"name">>>>

\* JSON true and false, and the number 1 (true in a test, but not True).
FlagValues == {"true", "false", "1"}

\* The attributes of a job template: its id, name and limit, a method, and each
\* flag either absent or with one of the values.
TemplateAttributes ==
    LET flags == {AskFlag("credential"), AskFlag("limit"), AskFlag("tags")}
        fixed == {<<"get_asked_variables">>, <<"id">>, <<"limit">>, <<"name">>}
    IN  UNION {{a \in [fixed \cup S -> FlagValues \cup {"method", "all"}] :
                   /\ \A n \in S : a[n] \in FlagValues
                   /\ a[<<"get_asked_variables">>] = "method"
                   /\ \A n \in fixed \ {<<"get_asked_variables">>} : a[n] = "all"} :
               S \in SUBSET flags}

\* A test of the value for truth.
is_truthy(v) == v \in {"true", "1", "all", "method"}

\* `getattr(self, attr) is True`
is_True(v) == v = "true"

\* The loop of JobTemplate.get_asked_variables over the names: for those with
\* attr.startswith('ask_') and a value that is True,
\* attr[4:].replace('_on_launch', '').
RECURSIVE asked_of(_, _)
asked_of(names, attrs) ==
    IF names = <<>> THEN <<>>
    ELSE LET attr == Head(names)
             rest == SelectSeq(Tail(attr), LAMBDA seg : seg # "_on_launch")
         IN  (IF attr[1] = "ask_" /\ is_True(attrs[attr])
              THEN <<IF rest = <<>> THEN "" ELSE rest[1]>> ELSE <<>>)
             \o asked_of(Tail(names), attrs)

\* JobTemplate.get_asked_variables, over dir(self).
get_asked_variables(attrs) ==
    asked_of(SelectSeq(DirOrder, LAMBDA n : n \in DOMAIN attrs), attrs)

\* Job.relaunch: the Job of a 201 answer, else None.
relaunch(status, job) == IF status = 201 THEN job ELSE None

\* What a POST can come to: a status (0 for a connection failure) and, in the
\* body, a job record as the server writes job records, with scm_branch.
PostAnswers ==
    {[status |-> status, record |-> rec] :
        status \in Statuses,
        rec \in {r \in UNION {Records("Job", id) : id \in ResourceIds} :
                    "scm_branch" \in DOMAIN r}}

\* What GET inventories/<id>/hosts/ can come to: a status (0 for a connection
\* failure) and the hosts sub-collection as the server hands it out, page
\* after page of host ids, each page but the last with a next link.
HostAnswers ==
    {[status |-> status, pages |-> pages] :
        status \in {0, 200, 400},
        pages \in {<<<<>>>>, <<<<"1">>>>, <<<<"1", "2">>>>, <<<<"1">>, <<"2">>>>,
                   <<<<"1", "2">>, <<"3">>>>, <<<<"1">>, <<"2">>, <<"3">>>>}}

\* Host(self.api, item)
Host(id) == construct("Host", [id |-> id, inventory |-> "7", name |-> "a"]).attrs

\* Inventory.get_hosts: [] for a failed request, else a Host for each item of
\* the results of the response.
get_hosts(status, pages) ==
    IF status # 200 THEN <<>>
    ELSE [i \in 1..Len(pages[1]) |-> Host(pages[1][i])]

\* str.split(',')
RECURSIVE split_commas(_)
split_commas(s) ==
    LET commas == {i \in 1..Len(s) : s[i] = ","}
    IN  IF commas = {} THEN <<s>>
        ELSE LET c == CHOOSE i \in commas : \A j \in commas : i <= j
             IN  <<SubSeq(s, 1, c - 1)>> \o split_commas(SubSeq(s, c + 1, Len(s)))

\* str.strip() for text whose white space is the blank.
RECURSIVE strip(_)
strip(s) ==
    IF s = <<>> THEN s
    ELSE IF Head(s) = " " THEN strip(Tail(s))
    ELSE IF s[Len(s)] = " " THEN strip(SubSeq(s, 1, Len(s) - 1))
    ELSE s

\* [int(cred.strip()) for cred in user_input.split(',') if cred.strip().isdigit()]
RECURSIVE ints_of(_)
ints_of(parts) ==
    IF parts = <<>> THEN <<>>
    ELSE (IF IsDigit(strip(Head(parts))) THEN <<ToInt(strip(Head(parts)))>> ELSE <<>>)
         \o ints_of(Tail(parts))

\* The key of the payload being the name of the variable, whatever it is.
payload_key_same(var) == var

\* `key = var`, and "credentials" for the variable credential.
payload_key(var) == IF var = "credential" THEN "credentials" ELSE var

\* getattr(self.current_context, var, ''), and for credential the ids of
\* summary_fields['credentials'].
launch_default(var, attrs, creds) ==
    IF var = "credential" THEN creds
    ELSE IF <<var>> \in DOMAIN attrs THEN attrs[<<var>>] ELSE ""

\* The loop of Ash.__cmd_launch over the asked variables: the payload, each
\* assignment on top of the ones before it.  The value of a variable is
\* `prompt(...) or default`, and for credential the ids of a typed list.
RECURSIVE launch_payload(_, _, _, _)
launch_payload(asked, typed, attrs, creds) ==
    IF asked = <<>> THEN <<>>
    ELSE LET var == asked[Len(asked)]
             before == launch_payload(SubSeq(asked, 1, Len(asked) - 1), typed, attrs,
                                      creds)
             key == payload_key(var)
             default == launch_default(var, attrs, creds)
             user_input ==
                 IF var = "credential"
                 THEN IF typed[var] = <<>> THEN default
                      ELSE ints_of(split_commas(typed[var]))
                 ELSE IF typed[var] = "" THEN default ELSE typed[var]
         IN  [k \in DOMAIN before \cup {key} |->
                 IF k = key THEN user_input ELSE before[k]]

\* What is typed at the prompts of a launch: at the prompt of each variable
\* nothing or a text (for credential a list), and the answer at the
\* confirmation.  The template has no survey.
LaunchInputs ==
    {[attrs |-> attrs, creds |-> creds, typed |-> typed, answer |-> answer] :
        attrs \in TemplateAttributes,
        creds \in {<<>>, <<5, 6>>},
        typed \in {[credential |-> c, limit |-> l, tags |-> "web"] :
                      c \in {<<>>, <<"7", ",", " ", "a", ",", "1", "2", " ">>},
                      l \in {"", "db"}},
        answer \in {<<>>, <<"y">>}}

\* The calls looked at, each with the inputs it is looked at for.
CallInputs(name) ==
    CASE name = "get_asked_variables" -> TemplateAttributes
      [] name = "get_hosts" -> HostAnswers
      [] name = "cmd_launch" -> LaunchInputs
      [] OTHER -> PostAnswers

InitCall ==
    /\ ShellInit
    /\ db = clean_cache
    /\ RetrieveIdle
    /\ ResourceIdle
    /\ call_pc = "called"
    /\ call_name \in {"get_asked_variables", "launch", "relaunch", "sync", "cancel",
                       "get_hosts", "cmd_launch"}
    /\ call_args \in CallInputs(call_name)
    /\ call_result = <<>>

\* JobTemplate.get_asked_variables returns.
ReturnAsked ==
    /\ call_pc = "called"
    /\ call_name = "get_asked_variables"
    /\ call_pc' = "returned"
    /\ call_result' = get_asked_variables(call_args)
    /\ UNCHANGED <<call_name, call_args>>
    /\ UNCHANGED <<shellVars, retrieveVars, resourceVars>>

\* JobTemplate.launch and Job.relaunch return: Job(self.api, response.json())
\* is built only for the status of success.
ReturnJob ==
    /\ call_pc = "called"
    /\ call_name \in {"launch", "relaunch"}
    /\ call_pc' = "returned"
    /\ LET built == construct("Job", call_args.record)
           job == IF call_name = "launch"
                  THEN launch(call_args.status, built.attrs)
                  ELSE relaunch(call_args.status, built.attrs)
       IN  call_result' =
              IF job # None /\ built.raised
              THEN [raised |-> TRUE, value |-> None]
              ELSE [raised |-> FALSE, value |-> job]
    /\ UNCHANGED <<call_name, call_args>>
    /\ UNCHANGED <<shellVars, retrieveVars, resourceVars>>

\* Project.sync and Job.cancel return; log_error is BaseObject's.
ReturnBool ==
    /\ call_pc = "called"
    /\ call_name \in {"sync", "cancel"}
    /\ call_pc' = "returned"
    /\ call_result' =
          [raised |-> "log_error" \notin Methods(IF call_name = "sync" THEN "Project"
                                                 ELSE "Job"),
           value |-> IF call_name = "sync" THEN sync(call_args.status)
                     ELSE cancel(call_args.status)]
    /\ UNCHANGED <<call_name, call_args>>
    /\ UNCHANGED <<shellVars, retrieveVars, resourceVars>>

\* Inventory.get_hosts returns; log_error is BaseObject's.
ReturnHosts ==
    /\ call_pc = "called"
    /\ call_name = "get_hosts"
    /\ call_pc' = "returned"
    /\ call_result' = [raised |-> "log_error" \notin Methods("Inventory"),
                       value |-> get_hosts(call_args.status, call_args.pages)]
    /\ UNCHANGED <<call_name, call_args>>
    /\ UNCHANGED <<shellVars, retrieveVars, resourceVars>>

\* Ash.__cmd_launch up to the POST: a prompt for each asked variable, the
\* confirmation prompt, and the payload handed to JobTemplate.launch when the
\* answer confirms.
ReturnLaunchPayload ==
    /\ call_pc = "called"
    /\ call_name = "cmd_launch"
    /\ call_pc' = "returned"
    /\ LET asked == get_asked_variables(call_args.attrs)
       IN  call_result' =
              [prompts |-> asked \o <<"confirm">>,
               posted |-> confirmed(call_args.answer),
               payload |-> IF confirmed(call_args.answer)
                           THEN launch_payload(asked, call_args.typed, call_args.attrs,
                                               call_args.creds)
                           ELSE <<>>]
    /\ UNCHANGED <<call_name, call_args>>
    /\ UNCHANGED <<shellVars, retrieveVars, resourceVars>>

NextCall ==
    \/ ReturnAsked
    \/ ReturnLaunchPayload
    \/ ReturnJob
    \/ ReturnBool
    \/ ReturnHosts

SpecCall == InitCall /\ [][NextCall]_vars

(***************************************************************************)
(* Properties.  The step that reads a line leaves it in text', so a        *)
(* property of a command is a property of the steps taken at the prompt.   *)
(***************************************************************************)
\* The context type that cd <otype> selects.
ContextTypeOf(otype) ==
    CASE otype = "job_template" -> "job_templates"
      [] otype = "inventory" -> "inventories"
      [] otype = "project" -> "projects"
      [] OTHER -> "jobs"

\* The id index that cd <otype> reads.
IdIndexOf(otype) ==
    CASE otype = "job_template" -> job_templates_by_id
      [] otype = "inventory" -> inventories_by_id
      [] OTHER -> projects_by_id

\* The name index that cd <otype> reads.
NameIndexOf(otype) ==
    CASE otype = "job_template" -> job_templates_by_name
      [] otype = "inventory" -> inventories_by_name
      [] OTHER -> projects_by_name

\* The commands of a context type, the root commands aside; none at Root.
CommandsOfType(context_type) ==
    CASE context_type = "job_templates" -> JT_COMMANDS
      [] context_type = "jobs" -> JOB_COMMANDS
      [] context_type = "inventories" -> INVENTORY_COMMANDS
      [] context_type = "projects" -> PROJECT_COMMANDS
      [] OTHER -> {}

\* The shell is in Selected(context_type, obj) with that type's command set.
Selected(context_type, obj) ==
    /\ current_context = obj
    /\ current_context_type = context_type
    /\ commands = CommandsOfType(context_type) \cup ROOT_COMMANDS

\* The step ends in Selected(context_type, obj).
Selects(context_type, obj) ==
    /\ current_context' = obj
    /\ current_context_type' = context_type
    /\ commands' = CommandsOfType(context_type) \cup ROOT_COMMANDS

\* C1: in every reachable state the active command set is the commands of the
\* current context type together with the root commands (the root commands alone
\* at Root), and the context object is absent exactly when the context type is.
C1_CommandsFollowContext ==
    /\ commands = CommandsOfType(current_context_type) \cup ROOT_COMMANDS
    /\ current_context_type = "None" => commands = ROOT_COMMANDS
    /\ (current_context = None) <=> (current_context_type = "None")

\* A job launched from a job template is the context, the line done.
C1_Witness ==
    /\ pc = "ran"
    /\ handler = "launch"
    /\ current_context.kind = "Job"
    /\ current_context_type = "jobs"
    /\ commands = JOB_COMMANDS \cup ROOT_COMMANDS

\* C2: cd job_template|inventory|project <n> with a numeric n selects the object
\* the id index of the type holds under n, with the commands of the type and the
\* root commands; when the index holds none it reports not-found and leaves the
\* context and the command set as they were.
C2_NumericCd ==
    [][(/\ pc = "prompt"
        /\ text'.command = "cd"
        /\ text'.n = 2
        /\ text'.otype \in {"job_template", "inventory", "project"}
        /\ IsDigit(text'.ident))
       => LET index == IdIndexOf(text'.otype)
              n == ToInt(text'.ident)
          IN  IF n \in DOMAIN index
              THEN Selects(ContextTypeOf(text'.otype), index[n])
              ELSE /\ printed' = <<Msg("not_found")>>
                   /\ UNCHANGED <<current_context, current_context_type, commands>>
      ]_vars

\* cd inventory 02 has selected the inventory with id 2.
C2_Witness ==
    /\ pc = "ran"
    /\ text = Line("cd", 2, "inventory", <<"0", "2">>)
    /\ Selected("inventories", Inventory(2))

\* C3: cd <type> <identifier> with an identifier that is not a number: when no
\* name of the type contains it, letter case aside, the context and the command
\* set stay; when exactly one does, that object is selected; when two or more do
\* (for projects: and none equals it), the context and the command set stay.
C3_NameCd ==
    [][(/\ pc = "prompt"
        /\ text'.command = "cd"
        /\ text'.n = 2
        /\ text'.otype \in CD_COMMANDS
        /\ ~IsDigit(text'.ident))
       => LET otype == text'.otype
              named == IF otype = "job"
                       THEN [k \in 1..Len(jobs') |-> <<jobs'[k].name, jobs'[k]>>]
                       ELSE NameIndexOf(otype)
              hits == {k \in 1..Len(named) :
                          Contains(Lower(text'.ident), Lower(named[k][1]))}
              exact == {k \in hits : Lower(named[k][1]) = Lower(text'.ident)}
          IN  /\ hits = {}
                    => UNCHANGED <<current_context, current_context_type, commands>>
              /\ Cardinality(hits) = 1
                    => \E k \in hits : Selects(ContextTypeOf(otype), named[k][2])
              /\ (Cardinality(hits) >= 2 /\ (otype = "project" => exact = {}))
                    => UNCHANGED <<current_context, current_context_type, commands>>
      ]_vars

\* cd job c has selected the one fetched job whose name contains c.
C3_Witness ==
    /\ pc = "ran"
    /\ text = Line("cd", 2, "job", <<"c">>)
    /\ Len(jobs) = 2
    /\ Selected("jobs", Job(12, TRUE))

\* C4: a cd by name that matches two or more objects of the type (for projects:
\* none of them by its whole name) reports that several were found and lists
\* them, which the not-found report of a cd without match does not.
C4_AmbiguityReported ==
    [][(/\ pc = "prompt"
        /\ pc' = "ran"
        /\ text'.command = "cd"
        /\ text'.n = 2
        /\ text'.otype \in CD_COMMANDS
        /\ ~IsDigit(text'.ident))
       => LET otype == text'.otype
              named == IF otype = "job"
                       THEN [k \in 1..Len(jobs') |-> <<jobs'[k].name, jobs'[k]>>]
                       ELSE NameIndexOf(otype)
              hits == {k \in 1..Len(named) :
                          Contains(Lower(text'.ident), Lower(named[k][1]))}
              exact == {k \in hits : Lower(named[k][1]) = Lower(text'.ident)}
          IN  (Cardinality(hits) >= 2 /\ (otype = "project" => exact = {}))
                 => /\ printed' # <<Msg("not_found")>>
                    /\ Len(printed') = 1 + Cardinality(hits)
                    /\ printed'[1] = Msg("multiple_found")
                    /\ \A k \in hits :
                          \E l \in 2..Len(printed') :
                             printed'[l] = MsgId("match", named[k][2])
      ]_vars

\* C5: cd project <name> whose identifier is contained in the names of several
\* projects selects a project whose name equals the identifier, letter case
\* aside, when there is one, without reporting several; when there is none it
\* reports several, lists them and leaves the context and the command set.
C5_ProjectExactMatch ==
    [][(/\ pc = "prompt"
        /\ text'.command = "cd"
        /\ text'.n = 2
        /\ text'.otype = "project"
        /\ ~IsDigit(text'.ident))
       => LET named == projects_by_name
              hits == {k \in 1..Len(named) :
                          Contains(Lower(text'.ident), Lower(named[k][1]))}
              exact == {k \in hits : Lower(named[k][1]) = Lower(text'.ident)}
          IN  Cardinality(hits) >= 2
                 => IF exact # {}
                    THEN /\ \E k \in exact : Selects("projects", named[k][2])
                         /\ \A l \in 1..Len(printed') :
                               printed'[l] # Msg("multiple_found")
                    ELSE /\ printed'[1] = Msg("multiple_found")
                         /\ Len(printed') = 1 + Cardinality(hits)
                         /\ UNCHANGED <<current_context, current_context_type,
                                        commands>>
      ]_vars

\* cd project AB, with the projects ab and abc cached, has selected ab.
C5_Witness ==
    /\ pc = "ran"
    /\ text = Line("cd", 2, "project", <<"A", "B">>)
    /\ Len(projects_by_name) >= 2
    /\ Selected("projects", Project(1))

\* C6: cd without arguments leaves the shell in Root: no current context, no
\* context type, and the root commands as the command set.
C6_CdToRoot ==
    [][(/\ pc = "prompt"
        /\ text'.command = "cd"
        /\ text'.n = 0)
       => /\ pc' = "ran"
          /\ current_context' = None
          /\ current_context_type' = "None"
          /\ commands' = ROOT_COMMANDS
      ]_vars

\* cd without arguments has run and the shell is in Root.
C6_Witness ==
    /\ pc = "ran"
    /\ text = Line("cd", 0, "", <<>>)
    /\ printed = <<Msg("switched_root")>>
    /\ Selected("None", None)

\* C7: the launch POST is issued only when the confirmation prompt was answered
\* yes or y, in any letter case; after any other answer, the empty one included,
\* no request is issued and the context and the command set stay.
C7_LaunchNeedsYes ==
    [][(/\ pc = "prompt"
        /\ text'.command = "launch")
       => LET yes == Lower(text'.ident) \in {<<"y", "e", "s">>, <<"y">>}
          IN  /\ (\E l \in 1..Len(reqs') : reqs'[l] = "POST launch") => yes
              /\ ~yes => /\ reqs' = <<>>
                         /\ response' = NoResponse
                         /\ UNCHANGED <<current_context, current_context_type,
                                        commands>>
      ]_vars

\* The prompt was answered YeS and the launch POST was issued.
C7_Witness ==
    /\ handler = "launch"
    /\ text.ident = <<"Y", "e", "S">>
    /\ reqs = <<"POST launch">>

\* C8: a confirmed launch answered 201 selects the job created, with the job
\* commands, and goes on to follow its output from the first line; answered
\* otherwise (0 is a connection failure) it leaves the job template selected,
\* with its commands; and a line of the job's output is printed only once the
\* job created is the context.
C8_LaunchOutcome ==
    /\ [][(/\ pc = "prompt"
           /\ handler' = "launch"
           /\ reqs' = <<"POST launch">>)
          => IF response'.status = 201
             THEN /\ response'.job.kind = "Job"
                  /\ Selects("jobs", response'.job)
                  /\ pc' = "follow"
                  /\ start_line' = 0
                  /\ \A l \in 1..Len(printed') : printed'[l][1] # "stdout"
             ELSE /\ current_context.kind = "JobTemplate"
                  /\ Selects("job_templates", current_context)
                  /\ pc' = "ran"
         ]_vars
    /\ [][(/\ handler = "launch"
           /\ Len(printed') > Len(printed)
           /\ printed'[Len(printed')][1] = "stdout")
          => /\ response.status = 201
             /\ current_context_type = "jobs"
             /\ current_context.id = response.job.id
             /\ commands = JOB_COMMANDS \cup ROOT_COMMANDS
         ]_vars

\* A launch answered 201 has selected the new job and printed output of it.
C8_Witness ==
    /\ pc = "ran"
    /\ handler = "launch"
    /\ response.status = 201
    /\ current_context_type = "jobs"
    /\ current_context.id = response.job.id
    /\ \E l \in 1..Len(printed) : printed[l][1] = "stdout"

\* C9: a line is dispatched to a handler only when its command word is in the
\* active command set; any other line (a command of another context, an unknown
\* word, a blank line) prints at most one message, issues no request and leaves
\* the context, the command set, the collections and the cache as they were.
C9_OnlyActiveCommands ==
    [][(/\ pc = "prompt"
        /\ pc' # "prompt")
       => /\ handler' # "none" => text'.command \in commands
          /\ text'.command \notin commands
                => /\ handler' = "none"
                   /\ Len(printed') <= 1
                   /\ reqs' = <<>>
                   /\ UNCHANGED <<ashVars, collVars, db>>
      ]_vars

\* launch typed with a project selected: an unknown command, nothing dispatched.
C9_Witness ==
    /\ pc = "ran"
    /\ text.command = "launch"
    /\ handler = "none"
    /\ printed = <<Msg("unknown_command")>>
    /\ current_context_type = "projects"
    /\ "launch" \notin commands

\* C10: a call with a result_limit above 0, every page holding at most page_size
\* records, never holds nor returns more than result_limit records, and requests
\* no page after the first once it holds result_limit of them, next link or not.
C10_LimitRespected ==
    /\ [](limit_arg > 0
            => /\ Len(data) <= limit_arg
               /\ rpc = "returned" => Len(objects) <= limit_arg)
    /\ [][(/\ limit_arg > 0
           /\ requests >= 1
           /\ requests' > requests)
          => Len(data) < limit_arg
         ]_vars

\* A call with result_limit 3 returned 3 records after two pages, the server
\* having handed out more and still giving a next link.
C10_Witness ==
    /\ rpc = "returned"
    /\ limit_arg = 3
    /\ Len(objects) = 3
    /\ requests = 2
    /\ served > 3
    /\ next_link

\* C11: a call with result_limit 0 to a server whose collection stays as it is
\* (it never hands out more than count records, and gives a next link exactly
\* while records remain) leaves the loop only when no record remains, and returns
\* the count records of the collection, each once and in the server's order.
C11_ReturnsWholeCollection ==
    /\ []((/\ limit_arg = 0
           /\ rpc \in {"paging", "returned"}
           /\ served <= result_limit)
          => data = Page(0, served))
    /\ []((/\ limit_arg = 0
           /\ rpc = "returned"
           /\ served <= result_limit
           /\ next_link <=> served < result_limit)
          => /\ Len(objects) = result_limit
             /\ \A i \in 1..result_limit : objects[i] = i)
    /\ [][(/\ limit_arg = 0
           /\ rpc = "paging"
           /\ rpc' = "returned"
           /\ served <= result_limit
           /\ next_link <=> served < result_limit)
          => served = result_limit
         ]_vars

\* A collection of MaxPageSize + 1 records was returned whole after two pages.
C11_Witness ==
    /\ rpc = "returned"
    /\ limit_arg = 0
    /\ result_limit = MaxPageSize + 1
    /\ requests = 2
    /\ served = result_limit
    /\ ~next_link
    /\ Len(objects) = MaxPageSize + 1

\* C12: a page request that fails (no connection, or a status other than 200),
\* the first or a later one, makes the call return None to its caller without
\* raising, whatever it had accumulated.
C12_FailedPageReturnsNone ==
    [][(/\ requests' > requests
        /\ rpc' # "paging")
       => /\ rpc' = "returned_none"
          /\ objects' = <<>>
      ]_vars

\* What the follow loop has printed of the job's output since the prompt, chunk
\* after chunk.
RECURSIVE Emitted(_)
Emitted(p) ==
    IF p = <<>> THEN <<>>
    ELSE (IF Head(p)[1] = "stdout" THEN Head(p)[2] ELSE <<>>) \o Emitted(Tail(p))

\* C13: while a job's output is followed, what has been emitted is the first
\* lines of the job's output, each line once and in the server's order, and the
\* start_line of every poll is the number of lines emitted so far.
C13_EmittedOnceInOrder ==
    LET emitted == Emitted(printed)
        n == Len(splitlines(emitted))
    IN  /\ emitted = StdoutLines(0, n)
        /\ \A i \in 1..n : splitlines(emitted)[i] = Str(i)
        /\ pc \in {"follow", "sleep"} => start_line = n

\* The whole output was emitted in two chunks over two polls.
C13_Witness ==
    /\ handler = "output"
    /\ pc = "ran"
    /\ Len(printed) = MaxLines
    /\ \A l \in 1..Len(printed) : printed[l][1] = "stdout"
    /\ Emitted(printed) = StdoutLines(0, MaxLines)
    /\ current_context.finished

\* Ash.run with the follow loop running on: an iteration of Job.print_stdout that
\* can be taken is taken, and the sleep ends.  Nothing makes the user type.
SpecLive == Spec /\ WF_vars(Poll) /\ WF_vars(Sleep)

\* C14: once the job followed reports finished, the follow loop comes to an
\* end, whatever the fetches of its output return.
C14_FollowTerminates ==
    (pc \in {"follow", "sleep"} /\ current_context.finished)
        ~> pc \notin {"follow", "sleep"}

\* The list, the keys of the id index, the objects of the name index and the
\* rows of the table are exactly the objects objs.
HoldsExactly(list, by_id, by_name, rows, objs) ==
    /\ list = objs
    /\ DOMAIN by_id = {objs[k].id : k \in 1..Len(objs)}
    /\ \A i \in DOMAIN by_id : \E k \in 1..Len(objs) : by_id[i] = objs[k]
    /\ {by_name[k][2] : k \in 1..Len(by_name)} = {objs[k] : k \in 1..Len(objs)}
    /\ rows = objs

\* C15: a cache command whose three collection requests succeed completes, and
\* then each collection, its id index, its name index and its table hold exactly
\* the objects just fetched.
C15_CacheHoldsFetched ==
    [][(/\ pc = "prompt"
        /\ handler' = "cache"
        /\ fetched'.inventories.ok
        /\ fetched'.projects.ok
        /\ fetched'.job_templates.ok)
       => /\ pc' = "ran"
          /\ HoldsExactly(inventories', inventories_by_id', inventories_by_name',
                          db'.inventories, fetched'.inventories.objects)
          /\ HoldsExactly(projects', projects_by_id', projects_by_name',
                          db'.projects, fetched'.projects.objects)
          /\ HoldsExactly(job_templates', job_templates_by_id',
                          job_templates_by_name', db'.job_templates,
                          fetched'.job_templates.objects)
      ]_vars

\* C16: on a reload, each object that the successful fetch of a type with an
\* empty table lists is inserted into that table exactly once, so that the table
\* then holds the fetched objects, which a restart would load without a fetch.
C16_ColdLoadInserts ==
    [][(/\ pc = "prompt"
        /\ handler' = "cache")
       => \A t \in {"inventories", "projects", "job_templates"} :
             LET requested == \E l \in 1..Len(reqs') : reqs'[l] = "GET " \o t
             IN  (requested /\ fetched'[t].ok) => db'[t] = fetched'[t].objects
      ]_vars

\* C17: the cache has the tables job_templates, projects and inventories and no
\* other, every row of a table is an object of the table's type, so that no row
\* is a Job, and a refresh of a job writes nothing to the cache: it does not
\* attempt an insertion.
C17_NoJobCached ==
    /\ [](/\ DOMAIN db = {"job_templates", "projects", "inventories"}
          /\ \A t \in DOMAIN db : \A k \in 1..Len(db[t]) :
                /\ db[t][k].kind = CASE t = "job_templates" -> "JobTemplate"
                                     [] t = "projects" -> "Project"
                                     [] t = "inventories" -> "Inventory"
                /\ db[t][k].kind # "Job")
    /\ [][(/\ pc = "prompt"
           /\ handler' = "refresh"
           /\ current_context.kind = "Job")
          => /\ db' = db
             /\ reqs' = <<"GET context">>
             /\ pc' = "ran"
             /\ printed' = <<Msg("context_refreshed")>>
         ]_vars

\* A job was refreshed while the cache holds rows.
C17_Witness ==
    /\ handler = "refresh"
    /\ pc = "ran"
    /\ current_context.kind = "Job"
    /\ current_context_type = "jobs"
    /\ \E t \in DOMAIN db : Len(db[t]) > 0

\* C18: whatever a command runs into, the loop of the shell goes on to the next
\* prompt: no line ends the session by an exception, and the loop is left only
\* by exit or by the end of input.
C18_OnlyExitEnds ==
    /\ [](pc # "crashed")
    /\ [][(pc # "terminated" /\ pc' = "terminated")
          => text'.command \in {"exit", "^D"}]_vars

\* C19: a user interrupt while a handler runs (at a prompt of launch, or in the
\* follow loop) is reported and ends that command only: the shell goes on to the
\* next prompt, the context, the collections and the cache stay as the handler
\* left them, the command set is the one of the context type, and the follow
\* loop is never left by an exception.
C19_InterruptAbortsCommandOnly ==
    /\ [][(/\ Len(printed') > 0
           /\ printed'[Len(printed')] = Msg("interrupted")
           /\ printed' # printed)
          => /\ pc' = "ran"
             /\ handler' \in {"launch", "output"}
             /\ UNCHANGED <<current_context, current_context_type, commands>>
             /\ UNCHANGED <<collVars, db>>
             /\ commands' = CommandsOfType(current_context_type') \cup ROOT_COMMANDS
             /\ pc = "prompt" => reqs' = <<>> /\ current_context'.kind = "JobTemplate"
             /\ pc # "prompt" => /\ current_context'.kind = "Job"
                                 /\ SubSeq(printed', 1, Len(printed)) = printed
         ]_vars
    /\ [][(pc \in {"follow", "sleep"}) => (pc' \in {"follow", "sleep", "ran"})]_vars
    /\ [](pc = "ran" => ENABLED Prompt)

\* A launch was interrupted while the output of the job it created was followed.
C19_Witness ==
    /\ handler = "launch"
    /\ pc = "ran"
    /\ Len(printed) > 2
    /\ printed[Len(printed)] = Msg("interrupted")
    /\ printed[Len(printed) - 1][1] = "stdout"
    /\ current_context_type = "jobs"
    /\ commands = JOB_COMMANDS \cup ROOT_COMMANDS

\* C20: after a refresh() whose request succeeded, self.data is the record of
\* the answer, every field of the record is the value of the attribute of its
\* name, and the object has no attribute left from an earlier record: besides
\* uri and absolute_url, each attribute is a field of the record (or the default
\* of a job's scm_branch).
C20_RefreshReplacesAll ==
    [][(r_pc' = "refreshed")
       => LET rec == r_response'.record
          IN  /\ r_response'.ok
              /\ r_data' = rec
              /\ \A k \in DOMAIN rec : r_attrs'[k] = rec[k]
              /\ \A k \in DOMAIN r_attrs' \ {"uri", "absolute_url"} :
                    \/ k \in DOMAIN rec
                    \/ r_kind = "Job" /\ k = "scm_branch" /\ r_attrs'[k] = "main"
      ]_vars

\* C21: a refresh() called right after the construction of an object of any
\* class, and answered with the record the object was built from, changes no
\* attribute of the object (scm_branch, uri and absolute_url included) and
\* leaves self.data as it was.
C21_RefreshAfterConstructIsNoOp ==
    [][(/\ r_pc = "built"
        /\ r_pc' = "refreshed"
        /\ r_response'.record = r_data)
       => /\ r_attrs' = r_attrs
          /\ r_data' = r_data
      ]_vars

\* C22: a Job is built from any job record, and its scm_branch is "main" when
\* the record has no scm_branch field or a null or empty one, and the value of
\* the field otherwise.
C22_ScmBranchDefault ==
    (r_kind = "Job" /\ r_pc \in {"built", "raised"})
        => /\ r_pc = "built"
           /\ "scm_branch" \in DOMAIN r_attrs
           /\ r_attrs["scm_branch"] =
                 IF "scm_branch" \in DOMAIN r_data /\ Truthy(r_data["scm_branch"])
                 THEN r_data["scm_branch"] ELSE "main"

\* C23: get_asked_variables returns exactly the names whose flag
\* ask_<name>_on_launch is true, each once and without the prefix and the
\* suffix, and no name whose flag is false, absent or of another value.
C23_AskedVariables ==
    (call_pc = "returned" /\ call_name = "get_asked_variables")
        => /\ \A name \in {"credential", "limit", "tags"} :
                 LET count == Cardinality({i \in 1..Len(call_result) :
                                              call_result[i] = name})
                     flag == AskFlag(name)
                 IN  count = IF flag \in DOMAIN call_args /\ call_args[flag] = "true"
                             THEN 1 ELSE 0
           /\ \A i \in 1..Len(call_result) :
                 call_result[i] \in {"credential", "limit", "tags"}

\* Two of three flags are true, and the third is the number 1.
C23_Witness ==
    /\ call_pc = "returned"
    /\ call_name = "get_asked_variables"
    /\ \A name \in {"credential", "limit", "tags"} : AskFlag(name) \in DOMAIN call_args
    /\ call_args[AskFlag("credential")] = "true"
    /\ call_args[AskFlag("limit")] = "1"
    /\ call_args[AskFlag("tags")] = "true"
    /\ call_result = <<"credential", "tags">>

\* C24: the jobs that ls jobs and the jobs command of a job template display
\* are the jobs of the server's answer, which lists the most recently finished
\* job first, in reversed order: the most recently finished job comes last.
C24_JobsAscending ==
    [][(/\ pc = "prompt"
        /\ pc' = "ran"
        /\ reqs' = <<"GET jobs">>
        /\ \/ handler' = "jobs"
           \/ handler' = "ls" /\ text'.otype = "jobs")
       => \E k \in 0..NumJobs :
             /\ jobs' = Reverse([i \in 1..k |-> Job(10 + i, TRUE)])
             /\ printed' = IF k = 0 THEN <<Msg("no_jobs")>>
                           ELSE <<Msg("headers")>> \o MatchLines(jobs')
      ]_vars

\* C25: launch and relaunch return a new Job, built from the record of the
\* answer, exactly when the status is 201, and None otherwise; sync and cancel
\* return true exactly when the status is 202; on any other status and on a
\* connection failure (status 0) none of them raises.
C25_ActionStatus ==
    (call_pc = "returned" /\ call_name \in {"launch", "relaunch", "sync", "cancel"})
        => /\ ~call_result.raised
           /\ call_name \in {"launch", "relaunch"} =>
                 IF call_args.status = 201
                 THEN /\ call_result.value # None
                      /\ call_result.value["id"] = call_args.record["id"]
                      /\ call_result.value["uri"] = <<"jobs/", call_args.record["id"]>>
                 ELSE call_result.value = None
           /\ call_name \in {"sync", "cancel"} =>
                 (call_result.value <=> call_args.status = 202)

\* A relaunch was answered 201.
C25_Witness ==
    /\ call_pc = "returned"
    /\ call_name = "relaunch"
    /\ call_args.status = 201
    /\ call_result.value # None
    /\ call_result.value["scm_branch"] = "main"

\* All the pages of a paged collection, one after the other.
RECURSIVE AllPages(_)
AllPages(pages) ==
    IF pages = <<>> THEN <<>> ELSE Head(pages) \o AllPages(Tail(pages))

\* C26: get_hosts answered 200 returns one Host for each host record of the
\* inventory, those of the pages after the first included, in the server's
\* order.
C26_AllHosts ==
    (call_pc = "returned" /\ call_name = "get_hosts" /\ call_args.status = 200)
        => LET ids == AllPages(call_args.pages)
           IN  /\ ~call_result.raised
               /\ Len(call_result.value) = Len(ids)
               /\ \A i \in 1..Len(ids) : call_result.value[i]["id"] = ids[i]

\* C27: ls, whatever its arguments, and cache leave the current context, the
\* context type and the command set as they were; ls also leaves the
\* collections, their indices and the cache as they were; and ls jobs with a
\* result_limit that is not an integer issues no request.
C27_LsAndCacheKeepContext ==
    [][(/\ pc = "prompt"
        /\ text'.command \in {"ls", "cache"})
       => /\ UNCHANGED <<current_context, current_context_type, commands>>
          /\ text'.command = "ls" => UNCHANGED <<collVars, db>>
          /\ (/\ text'.command = "ls"
              /\ text'.otype = "jobs"
              /\ text'.ident # <<>>
              /\ ~IsDigit(text'.ident))
             => /\ reqs' = <<>>
                /\ jobs' = <<>>
                /\ pc' = "ran"
          /\ (text'.command = "ls" /\ text'.otype # "jobs") => reqs' = <<>>
      ]_vars

\* ls jobs result_limit:a was typed with a job template selected.
C27_Witness ==
    /\ handler = "ls"
    /\ text.otype = "jobs"
    /\ text.ident = <<"a">>
    /\ pc = "ran"
    /\ printed = <<Msg("invalid_result_limit")>>
    /\ current_context.kind = "JobTemplate"
    /\ commands = JT_COMMANDS \cup ROOT_COMMANDS

C29_EmptyChunkAndSleep ==
    /\ [][(pc = "follow" /\ pc' \in {"sleep", "ran"} /\ handler' = handler
           /\ (printed' = printed \/ printed'[Len(printed')] # Msg("interrupted")))
          => \/ /\ printed' = printed
                /\ start_line' = start_line
                /\ pc' = "sleep"
             \/ /\ Len(printed') = Len(printed) + 1
                /\ SubSeq(printed', 1, Len(printed)) = printed
                /\ printed'[Len(printed')][1] = "stdout"
                /\ printed'[Len(printed')][2] # <<>>
                /\ start_line' > start_line
         ]_vars
    /\ [][(pc' = "follow" /\ pc # "follow") => (pc \in {"prompt", "sleep"})]_vars
    /\ [][(pc = "follow" /\ pc' = "follow") => UNCHANGED vars]_vars
    /\ [][(pc = "sleep") => (pc' \in {"sleep", "follow", "ran"}
                              /\ (pc' = "follow" => UNCHANGED <<start_line, printed>>))
         ]_vars

\* The first poll of an unfinished job emitted nothing, and the sleep is taken.
C29_Witness ==
    /\ pc = "sleep"
    /\ handler = "output"
    /\ start_line = 0
    /\ printed = <<>>
    /\ ~current_context.finished

\* C30: a launch prompts once for each asked variable of the template, then for
\* the confirmation; the payload posted on a confirmation has, for each asked
\* variable, what was typed at its prompt, or when nothing was typed the
\* template's value of that variable; for credential the key is credentials and
\* the value the numeric ids typed, or the ids of the template's credentials;
\* and the payload has no other key.
C30_LaunchPayload ==
    (call_pc = "returned" /\ call_name = "cmd_launch")
        => LET names == {"credential", "limit", "tags"}
               asked == {n \in names :
                            /\ AskFlag(n) \in DOMAIN call_args.attrs
                            /\ call_args.attrs[AskFlag(n)] = "true"}
               prompts == call_result.prompts
               payload == call_result.payload
           IN  /\ Len(prompts) = Cardinality(asked) + 1
               /\ prompts[Len(prompts)] = "confirm"
               /\ \A n \in asked : \E i \in 1..(Len(prompts) - 1) : prompts[i] = n
               /\ call_result.posted <=> call_args.answer = <<"y">>
               /\ call_result.posted =>
                     /\ DOMAIN payload =
                           {IF n = "credential" THEN "credentials" ELSE n : n \in asked}
                     /\ "limit" \in asked =>
                           payload["limit"] = IF call_args.typed["limit"] = ""
                                              THEN "all" ELSE call_args.typed["limit"]
                     /\ "tags" \in asked => payload["tags"] = call_args.typed["tags"]
                     /\ "credential" \in asked =>
                           payload["credentials"] =
                              IF call_args.typed["credential"] = <<>>
                              THEN call_args.creds ELSE <<7, 12>>

\* All three variables are asked, ids were typed for credential and nothing for
\* limit, and the launch was confirmed.
C30_Witness ==
    /\ call_pc = "returned"
    /\ call_name = "cmd_launch"
    /\ call_result.posted
    /\ call_result.prompts = <<"credential", "limit", "tags", "confirm">>
    /\ call_result.payload = [credentials |-> <<7, 12>>, limit |-> "all", tags |-> "web"]

\* C31: when a confirmed launch is answered by the server without a job being
\* created, or a sync is answered with a status other than 202, the command
\* prints a message of failure and prints neither that a job was launched nor
\* that the sync was initiated.  (A connection failure is printed by
\* API.post_request itself, so for the launch only the answers of the server
\* are looked at.)
C31_FailureReported ==
    [][(/\ pc = "prompt"
        /\ handler' \in {"launch", "sync"}
        /\ reqs' # <<>>
        /\ response'.status # (IF handler' = "launch" THEN 201 ELSE 202)
        /\ handler' = "launch" => response'.status # 0)
       => /\ printed' # <<>>
          /\ \A k \in 1..Len(printed') :
                printed'[k][1] \notin {"launched", "sync_initiated"}
      ]_vars

\* C32: in every context each command of the active command set but exit has a
\* handler method in class Ash, and each handler method of class Ash is named
\* by the command set of some context.
C32_CommandsHaveHandlers ==
    /\ \A command \in commands \ {"exit"} : HasHandler(command)
    /\ \A method \in CmdMethods : DispatchableAnywhere(method)

\* C33: while the session runs and the context is an object of a cacheable type
\* (a job template, an inventory or a project), the id of that object is a key
\* of the id index of its type.
C33_SelectedInIndex ==
    (/\ pc # "crashed"
     /\ current_context_type \in {"job_templates", "inventories", "projects"})
        => current_context.id \in
              DOMAIN (CASE current_context_type = "job_templates" -> job_templates_by_id
                        [] current_context_type = "inventories" -> inventories_by_id
                        [] OTHER -> projects_by_id)

\* C34: a refresh() whose request fails to connect, or is answered with a status
\* other than 200, changes neither self.data nor any attribute of the object,
\* and raises nothing.
C34_FailedRefreshKeepsAll ==
    [][(/\ r_pc \in {"built", "refreshed", "kept"}
        /\ r_response' # r_response \/ r_pc' # r_pc
        /\ ~r_response'.ok)
       => /\ r_pc' = "kept"
          /\ UNCHANGED <<r_kind, r_attrs, r_data>>
      ]_vars

\* A refresh was answered with a status other than 200 and a record whose
\* fields are not those of the object's record, and the object was kept.
C34_Witness ==
    /\ r_pc = "kept"
    /\ ~r_response.ok
    /\ DOMAIN r_response.record # {}
    /\ DOMAIN r_response.record # DOMAIN r_data

=============================================================================
